---- MODULE Spec2Model ----
(***************************************************************************)
(* Model of the election-news pipeline of src/main.py: parallel feed       *)
(* retrieval with retry, scoring, exact and fuzzy deduplication, triage    *)
(* and the persist-then-deliver publisher, all under one wall-clock        *)
(* deadline.                                                               *)
(*                                                                         *)
(* Texts are sequences of whitespace-separated words.  Time is counted in  *)
(* whole seconds from pipeline entry.  A content hash is modelled by the   *)
(* canonical token sequence it digests (SHA-256 taken as injective).       *)
(***************************************************************************)
EXTENDS Integers, Sequences, FiniteSets, TLC

(***************************************************************************)
(* SECTION 1 -- configuration (src/main.py lines 58-103)                   *)
(***************************************************************************)
GLOBAL_DEADLINE_SEC == 27
FEED_FETCH_TIMEOUT == 4
FEEDS_TOTAL_TIMEOUT == 10
DB_TIMEOUT == 5
IMAGE_SCRAPE_TIMEOUT == 3
TELEGRAM_TIMEOUT == 5
INTER_POST_DELAY == 1
FEED_MAX_RETRIES == 3
FEED_RETRY_BASE_MS == 300
TG_POST_MAX_RETRIES == 2
MAX_IMAGES == 5
HOURS_THRESHOLD == 24
FUZZY_THRESHOLD_PCT == 55
OVERLAP_THRESHOLD_PCT == 75
RATE_WINDOW_SEC == 60
\* The batch size, the rate cap and the score thresholds are read from the
\* environment when the module is loaded (lines 91, 99, 102-103), with these
\* defaults.
VARIABLE env
DefaultEnv ==
    [PUBLISH_BATCH_SIZE |-> 4, RATE_LIMIT_PER_MINUTE |-> 8,
     SCORE_HIGH |-> 6, SCORE_MEDIUM |-> 3]
PUBLISH_BATCH_SIZE == env.PUBLISH_BATCH_SIZE
RATE_LIMIT_PER_MINUTE == env.RATE_LIMIT_PER_MINUTE
SCORE_HIGH == env.SCORE_HIGH
SCORE_MEDIUM == env.SCORE_MEDIUM

\* The first sources of RSS_SOURCES (lines 59-74); NumSources of them are used.
NumSources == 2
SourceNames == <<"Fars", "ISNA", "Tasnim", "Mehr">>
RSS_SOURCES == SubSeq(SourceNames, 1, NumSources)
SourceIds == 1..NumSources

PERSIAN_STOPWORDS == {"the", "of", "in", "shod"}

(***************************************************************************)
(* Generic sequence helpers                                                *)
(***************************************************************************)
Min(a, b) == IF a <= b THEN a ELSE b
Max(a, b) == IF a >= b THEN a ELSE b

Range(s) == {s[i] : i \in 1..Len(s)}

RECURSIVE Flatten(_)
Flatten(ss) == IF ss = <<>> THEN <<>> ELSE Head(ss) \o Flatten(Tail(ss))

RECURSIVE FilterSeq(_, _)
FilterSeq(s, keep) ==
    IF s = <<>> THEN <<>>
    ELSE IF Head(s) \in keep THEN <<Head(s)>> \o FilterSeq(Tail(s), keep)
         ELSE FilterSeq(Tail(s), keep)

\* kw occurs in txt as a run of whole tokens: the word-boundary pattern of
\* _compile_wb searched in the space-padded normalized text.
Matches(kw, txt) ==
    \E i \in 1..(Len(txt) - Len(kw) + 1) : SubSeq(txt, i, i + Len(kw) - 1) = kw

\* The stable sort of s that puts x before y whenever Before(x, y): what
\* sorted() and list.sort() give, elements that compare equal keeping their order.
Sorted(s, Before(_, _)) ==
    LET Pos(i) == 1 + Cardinality({j \in 1..Len(s) :
                        \/ Before(s[j], s[i])
                        \/ (~Before(s[i], s[j]) /\ j < i)})
    IN  IF s = <<>> THEN <<>>
        ELSE [p \in 1..Len(s) |-> s[CHOOSE i \in 1..Len(s) : Pos(i) = p]]

\* (the sequence to sort is evaluated once)
StableSort(s, Before(_, _)) == CHOOSE r \in {Sorted(v, Before) : v \in {s}} : TRUE

(***************************************************************************)
(* SECTION 2 -- normalization and keyword tables                           *)
(***************************************************************************)
\* _pre_normalize on one word: case folding, punctuation replaced by
\* whitespace (which may leave nothing, or split the word).
PreNormalizeWord(w) ==
    CASE w = "Election" -> <<"election">>
      [] w = "results:" -> <<"results">>
      [] w = "--" -> <<>>
      [] OTHER -> <<w>>

_pre_normalize(text) == Flatten([i \in 1..Len(text) |-> PreNormalizeWord(text[i])])

\* Words of one character (len(tok) < 2 in _normalize_text).
ShortTokens == {"5", "x"}

\* (keyword, title points, description points)
LAYER1_COMPILED ==
    << <<<<"election">>, 4, 2>>,
       <<<<"rad", "salahiyat">>, 5, 3>>,
       <<<<"shoraye", "negahban">>, 4, 2>> >>

LAYER2_COMPILED ==
    << <<<<"monazereh">>, 3, 1>>,
       <<<<"campaign">>, 2, 1>> >>

REJECTION_COMPILED == << <<"valibal">> >>

CANDIDATE_PATTERNS == << "jalili", "zarif" >>

\* Topic tag -> its patterns, in dictionary order.
TOPIC_NAMES == <<"salahiyat", "tablighat">>
TOPIC_COMPILED(topic) ==
    CASE topic = "salahiyat" -> {<<"rad", "salahiyat">>, <<"shoraye", "negahban">>}
      [] topic = "tablighat" -> {<<"monazereh">>}
      [] OTHER -> {}

(***************************************************************************)
(* SECTION 7 -- scoring engine                                             *)
(***************************************************************************)
\* A keyword that counts in the title and in the description.
PointsOfBoth(kw, padded_t, padded_d) ==
    (IF Matches(kw[1], padded_t) THEN kw[2] ELSE 0)
    + (IF Matches(kw[1], padded_d) THEN kw[3] ELSE 0)

\* Lines 882-885 and 889-892: the points of one keyword.
KeywordPoints(kw, padded_t, padded_d) ==
    IF Matches(kw[1], padded_t) THEN kw[2]
    ELSE IF Matches(kw[1], padded_d) THEN kw[3]
    ELSE 0

\* One layer of exclusive title / else-description accumulation.
RECURSIVE LayerScore(_, _, _)
LayerScore(layer, padded_t, padded_d) ==
    IF layer = <<>> THEN 0
    ELSE KeywordPoints(Head(layer), padded_t, padded_d)
         + LayerScore(Tail(layer), padded_t, padded_d)

CandidatesFound(padded_all) ==
    FilterSeq(CANDIDATE_PATTERNS,
              {c \in Range(CANDIDATE_PATTERNS) : Matches(<<c>>, padded_all)})

RECURSIVE CandidateScore(_, _)
CandidateScore(found, padded_t) ==
    IF found = <<>> THEN 0
    ELSE (IF Matches(<<Head(found)>>, padded_t) THEN 2 ELSE 1)
         + CandidateScore(Tail(found), padded_t)

TopicsFound(padded_all) ==
    FilterSeq(TOPIC_NAMES,
              {t \in Range(TOPIC_NAMES) :
                  \E pat \in TOPIC_COMPILED(t) : Matches(pat, padded_all)})

Tier(score) ==
    IF score >= SCORE_HIGH THEN "HIGH"
    ELSE IF score >= SCORE_MEDIUM THEN "MEDIUM"
    ELSE "LOW"

\* Lines 880-910: the points of both layers and of the candidates found.
ScoreBase(norm_title, norm_desc, candidates) ==
    LayerScore(LAYER1_COMPILED, norm_title, norm_desc)
    + LayerScore(LAYER2_COMPILED, norm_title, norm_desc)
    + CandidateScore(candidates, norm_title)

\* A bonus given to every article that names a candidate.
CandidateBonusAlways(score, candidates) ==
    IF candidates # <<>> THEN score + 2 ELSE score

\* Lines 914-915: bonus of a candidate in an article already at MEDIUM.
CandidateBonus(score, candidates) ==
    IF candidates # <<>> /\ score >= SCORE_MEDIUM THEN score + 2 ELSE score

\* Lines 916-917: bonus of two topics in an article already at MEDIUM.
TopicBonus(score, topics) ==
    IF Len(topics) >= 2 /\ score >= SCORE_MEDIUM THEN score + 1 ELSE score

\* Lines 871-877: a rejection pattern anywhere in title or description.
Rejected(padded_all) ==
    \E i \in 1..Len(REJECTION_COMPILED) : Matches(REJECTION_COMPILED[i], padded_all)

ScoreResult(score, candidates, topics) ==
    [score |-> score, tier |-> Tier(score), candidates |-> candidates, topics |-> topics]

ScoreNormalized(norm_title, norm_desc, candidates, topics) ==
    IF Rejected(norm_title \o norm_desc)
    THEN [score |-> -1, tier |-> "LOW", candidates |-> <<>>, topics |-> <<>>]
    ELSE ScoreResult(
             TopicBonus(CandidateBonus(ScoreBase(norm_title, norm_desc, candidates),
                                       candidates),
                        topics),
             candidates, topics)

\* (both texts are normalized once)
_score_article(title, desc) ==
    CHOOSE r \in {ScoreNormalized(norm_title, norm_desc,
                                  CandidatesFound(norm_title \o norm_desc),
                                  TopicsFound(norm_title \o norm_desc)) :
                      norm_title \in {_pre_normalize(title)},
                      norm_desc \in {_pre_normalize(desc)}} : TRUE

(***************************************************************************)
(* SECTION 11/12 -- fingerprint and fuzzy duplicate                        *)
(***************************************************************************)
\* Lines 1239-1243: the tokens that are no stopword and have two characters
\* or more.
KeptTokens(tokens) ==
    FilterSeq(tokens, {tok \in Range(tokens) :
                          tok \notin PERSIAN_STOPWORDS /\ tok \notin ShortTokens})

_normalize_text(text) == CHOOSE r \in {KeptTokens(t) : t \in {_pre_normalize(text)}} : TRUE

\* Lexicographic order of the tokens of the model's vocabulary.
TokenOrder ==
    <<"5", "campaign", "election", "jalili", "monazereh", "negahban", "rad",
      "results", "salahiyat", "shoraye", "valibal", "x", "zarif">>
TokenRank(tok) == CHOOSE i \in 1..Len(TokenOrder) : TokenOrder[i] = tok

TokenBefore(a, b) == TokenRank(a) < TokenRank(b)

\* sorted(tokens)
SortTokens(s) == StableSort(s, TokenBefore)

\* sha256 of the sorted tokens joined by a space; the digest is kept as the
\* canonical token sequence it is computed from.
_make_hash(title) == SortTokens(_normalize_text(title))

\* Document id of the history store: the first 36 characters of the digest,
\* distinct for distinct digests of the model.
DocId(content_hash) == content_hash

\* Lines 519-522 and 609-612: the record kept of a title.
FuzzyRecord(title) == [title |-> title, title_norm |-> _normalize_text(title)]

\* A comparison that never finds a near-duplicate.
NeverFuzzy(title, records) == FALSE

\* A comparison that measures the overlap against the incoming title's size.
FuzzyByIncoming(title, records) ==
    LET incoming == Range(_normalize_text(title))
    IN  /\ Cardinality(incoming) >= 2
        /\ \E i \in 1..Len(records) :
              LET stored == Range(records[i].title_norm)
                  inter  == Cardinality(incoming \cap stored)
              IN  /\ Cardinality(stored) >= 2
                  /\ inter # 0
                  /\ \/ inter * 100 >= OVERLAP_THRESHOLD_PCT * Cardinality(incoming)
                     \/ inter * 100 >= FUZZY_THRESHOLD_PCT * Cardinality(incoming \cup stored)

\* A comparison by the Jaccard ratio alone.
JaccardOnly(title, records) ==
    LET incoming == Range(_normalize_text(title))
    IN  /\ Cardinality(incoming) >= 2
        /\ \E i \in 1..Len(records) :
              LET stored == Range(records[i].title_norm)
                  inter  == Cardinality(incoming \cap stored)
              IN  /\ Cardinality(stored) >= 2
                  /\ inter # 0
                  /\ inter * 100 >= FUZZY_THRESHOLD_PCT * Cardinality(incoming \cup stored)

_is_fuzzy_duplicate(title, records) ==
    LET incoming == Range(_normalize_text(title))
    IN  /\ records # <<>>
        /\ Cardinality(incoming) >= 2
        /\ \E i \in 1..Len(records) :
              LET stored == Range(records[i].title_norm)
                  inter  == Cardinality(incoming \cap stored)
                  min_sz == Min(Cardinality(incoming), Cardinality(stored))
                  union  == Cardinality(incoming \cup stored)
              IN  /\ Cardinality(stored) >= 2
                  /\ inter # 0
                  /\ \/ inter * 100 >= OVERLAP_THRESHOLD_PCT * min_sz
                     \/ inter * 100 >= FUZZY_THRESHOLD_PCT * union

(***************************************************************************)
(* Inputs: the entries the feeds may serve                                 *)
(***************************************************************************)
\* pub_date of an entry without a usable timestamp (_parse_date returns None).
NoDate == -1
\* datetime.min, the sort key of an entry without a timestamp.
DateMin == 0
\* The hour at which the run starts (datetime.now at pipeline entry).
NowHour == 100

Item(title, link, desc, pub_date) ==
    [title |-> title, link |-> link, desc |-> desc, pub_date |-> pub_date]

\* Entries as a feed serves them (title, link, summary, published).
FeedItems ==
    << Item(<<"rad", "salahiyat", "zarif">>, "l1", <<>>, 99),
       Item(<<"election", "results">>, "l2", <<>>, 99),
       Item(<<"salahiyat", "rad", "zarif">>, "l3", <<>>, 99),
       Item(<<"zarif", "rad", "salahiyat">>, "l4", <<>>, 98),
       Item(<<"Election", "results:", "the">>, "l5", <<>>, 98),
       Item(<<"election", "results", "campaign">>, "l6", <<>>, 99),
       Item(<<"election", "monazereh">>, "l2", <<>>, NoDate),
       Item(<<"election", "results">>, "l8", <<>>, 50),
       Item(<<"campaign">>, "l9", <<"election">>, 99),
       Item(<<"campaign">>, "l10", <<>>, 99),
       Item(<<"valibal", "election">>, "l11", <<>>, 99),
       Item(<<"election">>, "l12", <<>>, 99) >>

\* Entries a feed may serve that the fetcher drops (no title, or no link).
BadItems ==
    { Item(<<>>, "l13", <<>>, 99), Item(<<"election">>, "", <<>>, 99) }

\* All sequences over S of length at most n.
SeqsUpTo(S, n) == UNION {[1..k -> S] : k \in 0..n}

(***************************************************************************)
(* State                                                                   *)
(***************************************************************************)
\* The executions of the pipeline that may overlap on one history store.
Execs == {"A", "B"}

VARIABLES
    feeds,              \* source id -> the entries its feed serves on a 200
    net,                \* source id -> the answers its server may give in this run
    store,              \* the history store: a set of documents
    configured,         \* execution -> all required environment variables set
    load_reply,         \* execution -> the documents the store returned to the
                        \* request of the db.load_recent the execution awaits
    pc,                 \* execution -> position in main / the publisher
    elapsed,            \* execution -> seconds since _t0
    stats,              \* execution -> the stats dictionary
    all_entries,        \* execution -> fetched entries
    known_links, known_hashes, fuzzy_records, source_reliability,
    posted_hashes,
    publish_queue,
    idx,                \* execution -> position of the loop of phase 3 / 4
    batch_posted,
    timestamps,         \* execution -> the rate limiter's _timestamps
    fetch_budget,
    saved,              \* execution -> outcome of db.save in the current publish call
    image_urls,         \* execution -> number of images collected
    tg_budget,
    attempt,            \* execution -> attempt of the delivery loop
    success,            \* execution -> value returned by the last publish call
    sends,              \* execution -> platform calls made in the current publish call
    summary,            \* execution -> the returned summary, or NoSummary
    post_deadline,      \* execution -> time at which the wait_for around the
                        \* current post call fires
    inflight,           \* <<execution, document>>: save requests sent that the
                        \* store has not served
    reply,              \* execution -> what the store did with the request of
                        \* the db.save the execution awaits
    events,             \* <<"saved" or "sent", execution, content_hash>>: the saves
                        \* that returned True and the post calls started
    wpc, wattempt, wres, wtmp,   \* source id -> state of its worker thread
    wretries, wsleeps,           \* source id -> retries counted / back-off sleeps
    call,               \* a call of one of the pure functions: its name and arguments
    ret                 \* what the call returned, once it has returned

envVars == <<env, feeds, net, store, configured, load_reply>>
mainVars == <<pc, elapsed, stats, all_entries, fetch_budget, summary>>
dedupVars == <<known_links, known_hashes, fuzzy_records, source_reliability,
               posted_hashes, publish_queue, idx>>
pubVars == <<batch_posted, timestamps, saved, image_urls, tg_budget, attempt,
             success, sends, events, post_deadline, inflight, reply>>
workerVars == <<wpc, wattempt, wres, wtmp, wretries, wsleeps>>
callVars == <<call, ret>>
vars == <<envVars, mainVars, dedupVars, pubVars, workerVars, callVars>>

\* No function is being called on its own.
NoCall == [fn |-> "none"]
NoRet == [done |-> FALSE]
NoCallPending == call = NoCall /\ ret = NoRet

NoSummary == [status |-> "none"]
\* The store has not answered the load request of the execution.
NoLoad == [served |-> FALSE, docs |-> <<>>]
\* A worker that has not returned: no value, no last answer.
NoResult == [kind |-> "pending", entries |-> <<>>, last |-> "none"]

InitStats ==
    [feeds_ok |-> 0, feeds_fail |-> 0, feeds_retry |-> 0, entries_total |-> 0,
     skip_time |-> 0, skip_topic |-> 0, skip_dupe |-> 0,
     queued_high |-> 0, queued_medium |-> 0, queued_low |-> 0,
     posted |-> 0, post_retries |-> 0, post_fallbacks |-> 0,
     errors |-> 0, db_timeout |-> FALSE, overflow |-> 0]

_response(st, error) ==
    IF error
    THEN [status |-> "error", posted |-> 0, feeds_ok |-> 0, feeds_failed |-> 0,
          feeds_retries |-> 0, entries_total |-> 0, queued_high |-> 0,
          queued_medium |-> 0, queued_low |-> 0, skipped_time |-> 0,
          skipped_topic |-> 0, skipped_dupe |-> 0, post_retries |-> 0,
          post_fallbacks |-> 0, errors |-> 0, overflow |-> 0, db_timeout |-> FALSE]
    ELSE [status |-> "success", posted |-> st.posted, feeds_ok |-> st.feeds_ok,
          feeds_failed |-> st.feeds_fail, feeds_retries |-> st.feeds_retry,
          entries_total |-> st.entries_total, queued_high |-> st.queued_high,
          queued_medium |-> st.queued_medium, queued_low |-> st.queued_low,
          skipped_time |-> st.skip_time, skipped_topic |-> st.skip_topic,
          skipped_dupe |-> st.skip_dupe, post_retries |-> st.post_retries,
          post_fallbacks |-> st.post_fallbacks, errors |-> st.errors,
          overflow |-> st.overflow, db_timeout |-> st.db_timeout]

\* _remaining(): seconds left before the global deadline.
_remaining(e) == GLOBAL_DEADLINE_SEC - elapsed[e]

\* The state of every execution before it is invoked, and of the workers
\* before they are started.
InitCommon ==
    /\ elapsed = [e \in Execs |-> 0]
    /\ stats = [e \in Execs |-> InitStats]
    /\ all_entries = [e \in Execs |-> <<>>]
    /\ known_links = [e \in Execs |-> {}]
    /\ known_hashes = [e \in Execs |-> {}]
    /\ fuzzy_records = [e \in Execs |-> <<>>]
    /\ source_reliability = [e \in Execs |-> [s \in Range(RSS_SOURCES) |-> 0]]
    /\ posted_hashes = [e \in Execs |-> {}]
    /\ publish_queue = [e \in Execs |-> <<>>]
    /\ idx = [e \in Execs |-> 0]
    /\ batch_posted = [e \in Execs |-> 0]
    /\ timestamps = [e \in Execs |-> <<>>]
    /\ fetch_budget = [e \in Execs |-> 0]
    /\ saved = [e \in Execs |-> "none"]
    /\ image_urls = [e \in Execs |-> 0]
    /\ tg_budget = [e \in Execs |-> 0]
    /\ attempt = [e \in Execs |-> 0]
    /\ success = [e \in Execs |-> FALSE]
    /\ sends = [e \in Execs |-> <<>>]
    /\ summary = [e \in Execs |-> NoSummary]
    /\ events = {}
    /\ post_deadline = [e \in Execs |-> 0]
    /\ inflight = {}
    /\ reply = [e \in Execs |-> "none"]
    /\ wpc = [s \in SourceIds |-> "idle"]
    /\ wattempt = [s \in SourceIds |-> 0]
    /\ wres = [s \in SourceIds |-> NoResult]
    /\ wtmp = [s \in SourceIds |-> 0]
    /\ wretries = [s \in SourceIds |-> 0]
    /\ wsleeps = [s \in SourceIds |-> <<>>]

(***************************************************************************)
(* SECTION 5 -- main: entry                                                *)
(***************************************************************************)
\* main returns: the summary is built from the stats at that moment.
Return(e, st) ==
    /\ summary' = [summary EXCEPT ![e] = _response(st, FALSE)]
    /\ pc' = [pc EXCEPT ![e] = "done"]

\* A configuration that is never found incomplete.
NeverMissing(e) == FALSE

\* Lines 425-427: _load_config returned None, a required value is missing.
MissingConfig(e) == ~configured[e]

\* Lines 410-460: configuration check, fetch budget, start of the workers.
Entry(e) ==
    /\ pc[e] = "entry"
    /\ LET fb == Min(FEEDS_TOTAL_TIMEOUT, _remaining(e) - 16)
       IN  IF MissingConfig(e)
           THEN /\ summary' = [summary EXCEPT ![e] = _response(stats[e], TRUE)]
                /\ pc' = [pc EXCEPT ![e] = "done"]
                /\ UNCHANGED <<fetch_budget, wpc>>
           ELSE IF fb < 3
           THEN /\ Return(e, stats[e])
                /\ UNCHANGED <<fetch_budget, wpc>>
           ELSE /\ fetch_budget' = [fetch_budget EXCEPT ![e] = fb]
                /\ pc' = [pc EXCEPT ![e] = "fetch"]
                /\ wpc' = [s \in SourceIds |-> "request"]
                /\ UNCHANGED summary
    /\ UNCHANGED <<envVars, callVars, elapsed, stats, all_entries, dedupVars, pubVars,
                   wattempt, wres, wtmp, wretries, wsleeps>>

(***************************************************************************)
(* SECTION 6 -- feed fetcher with retry                                    *)
(***************************************************************************)
\* What one HTTP GET of a feed may give.
Responses == {"ok200", "bozo", "http404", "http5xx", "conn", "timeout", "unexpected"}

\* Lines 809-832: the entries with a title and a link, tagged with the source.
ValidEntries(s) ==
    LET raw == feeds[s]
        ok(i) == raw[i].title # <<>> /\ raw[i].link # ""
        kept == FilterSeq(raw, {raw[i] : i \in {j \in 1..Len(raw) : ok(j)}})
    IN  [i \in 1..Len(kept) |->
            [title |-> kept[i].title, link |-> kept[i].link, desc |-> kept[i].desc,
             pub_date |-> kept[i].pub_date, source |-> RSS_SOURCES[s]]]

\* A fetcher that retries once only.
MayRetryOnce(a) == a < 1

\* attempt < FEED_MAX_RETRIES - 1: another attempt is allowed.
MayRetry(a) == a < FEED_MAX_RETRIES - 1

RECURSIVE Pow2(_)
Pow2(n) == IF n = 0 THEN 1 ELSE 2 * Pow2(n - 1)

\* A back-off that waits the base delay before every retry.
BackoffConstant(a) == FEED_RETRY_BASE_MS

\* delay = FEED_RETRY_BASE_SEC * (2 ** attempt), in milliseconds.
BackoffDelay(a) == FEED_RETRY_BASE_MS * Pow2(a)

\* The worker returns: a list (kind "list") or None (kind "none"); last is
\* the answer of its latest request.
WorkerReturn(s, kind, entries, last) ==
    /\ wres' = [wres EXCEPT ![s] = [kind |-> kind, entries |-> entries, last |-> last]]
    /\ wpc' = [wpc EXCEPT ![s] = "done"]

\* A fetcher that takes a 404 for a transient failure.
OutcomeRetries404(r, a) ==
    CASE r = "bozo" -> "return_empty"
      [] r = "ok200" -> "return_entries"
      [] r = "unexpected" -> "return_none"
      [] OTHER -> IF a < FEED_MAX_RETRIES - 1 THEN "retry" ELSE "return_none"

\* Lines 774-858: what attempt a of _fetch_one_feed_retry does with answer r.
Outcome(r, a) ==
    CASE r = "http404" -> "return_empty"
      [] r = "bozo" -> "return_empty"
      [] r = "ok200" -> "return_entries"
      [] r = "unexpected" -> "return_none"
      [] OTHER -> IF MayRetry(a) THEN "retry" ELSE "return_none"

\* Lines 774-846 and 849-858: one attempt of _fetch_one_feed_retry, up to the
\* return or to the increment of the shared retry counter.
WorkerStep(s, r, o) ==
    CASE o = "return_empty" -> WorkerReturn(s, "list", <<>>, r)
      [] o = "return_entries" -> WorkerReturn(s, "list", ValidEntries(s), r)
      [] o = "return_none" -> WorkerReturn(s, "none", <<>>, r)
      [] OTHER -> /\ wpc' = [wpc EXCEPT ![s] = "retry_read"]
                  /\ wres' = [wres EXCEPT ![s].last = r]

\* The worker threads of execution e were started (line 746).  They are not
\* stopped when the wait_for around the gather gives up (line 467): a thread
\* goes on requesting, counting retries and sleeping after main went on.
WorkersStarted(e) == pc[e] \notin {"off", "entry"}

WorkerRequest(e, s) ==
    /\ WorkersStarted(e)
    /\ wpc[s] = "request"
    /\ \E r \in net[s] : WorkerStep(s, r, Outcome(r, wattempt[s]))
    /\ UNCHANGED <<envVars, callVars, mainVars, dedupVars, pubVars,
                   wattempt, wtmp, wretries, wsleeps>>

\* stats["feeds_retry"] += 1, first half: the worker thread reads the counter.
WorkerRetryRead(e, s) ==
    /\ WorkersStarted(e)
    /\ wpc[s] = "retry_read"
    /\ wtmp' = [wtmp EXCEPT ![s] = stats[e].feeds_retry]
    /\ wpc' = [wpc EXCEPT ![s] = "retry_write"]
    /\ UNCHANGED <<envVars, callVars, mainVars, dedupVars, pubVars,
                   wattempt, wres, wretries, wsleeps>>

\* Second half: the worker stores the incremented value, sleeps the back-off
\* delay and starts the next attempt.
WorkerRetryWrite(e, s) ==
    /\ WorkersStarted(e)
    /\ wpc[s] = "retry_write"
    /\ stats' = [stats EXCEPT ![e].feeds_retry = wtmp[s] + 1]
    /\ wretries' = [wretries EXCEPT ![s] = @ + 1]
    /\ wsleeps' = [wsleeps EXCEPT ![s] = Append(@, BackoffDelay(wattempt[s]))]
    /\ wattempt' = [wattempt EXCEPT ![s] = @ + 1]
    /\ wpc' = [wpc EXCEPT ![s] = "request"]
    /\ wtmp' = [wtmp EXCEPT ![s] = 0]
    /\ UNCHANGED <<envVars, callVars, pc, elapsed, all_entries, fetch_budget, summary,
                   dedupVars, pubVars, wres>>

\* Lines 751-766: the results of the gathered tasks, in source order.
GatherEntries(res) ==
    Flatten([s \in SourceIds |-> IF res[s].kind = "list" THEN res[s].entries ELSE <<>>])
GatherOk(res) == Cardinality({s \in SourceIds : res[s].kind = "list"})
\* A gather that counts no failure.
GatherFailNone(res) == 0

GatherFail(res) == Cardinality({s \in SourceIds : res[s].kind # "list"})

\* Sort key of line 490.
PubKey(entry) == IF entry.pub_date = NoDate THEN DateMin ELSE entry.pub_date

\* all_entries.sort(key=pub_date, reverse=True): stable, newest first.
NewerThan(x, y) == PubKey(x) > PubKey(y)
SortByDate(s) == StableSort(s, NewerThan)

\* What main does with the entries the fetch phase produced (lines 471-492).
AfterFetch(e, entries, st) ==
    LET st2 == [st EXCEPT !.entries_total = Len(entries)]
    IN  /\ stats' = [stats EXCEPT ![e] = st2]
        /\ IF entries = <<>>
           THEN /\ Return(e, st2)
                /\ all_entries' = [all_entries EXCEPT ![e] = <<>>]
           ELSE /\ all_entries' = [all_entries EXCEPT ![e] = SortByDate(entries)]
                /\ pc' = [pc EXCEPT ![e] = "dbload"]
                /\ UNCHANGED summary

\* The worker threads are over (or abandoned): their locals are gone.
WorkersCleared ==
    /\ wpc' = [s \in SourceIds |-> "idle"]
    /\ wattempt' = [s \in SourceIds |-> 0]
    /\ wres' = [s \in SourceIds |-> NoResult]
    /\ wtmp' = [s \in SourceIds |-> 0]
    /\ wretries' = [s \in SourceIds |-> 0]
    /\ wsleeps' = [s \in SourceIds |-> <<>>]

\* Every task is done before the outer deadline: _fetch_all_feeds_retry
\* returns after d <= fetch_budget seconds and main goes on (lines 463-492).
GatherDone(e) ==
    /\ pc[e] = "fetch"
    /\ \A s \in SourceIds : wpc[s] = "done"
    /\ \E d \in 0..fetch_budget[e] :
          elapsed' = [elapsed EXCEPT ![e] = @ + d]
    /\ AfterFetch(e, GatherEntries(wres),
                  [stats[e] EXCEPT !.feeds_ok = @ + GatherOk(wres),
                                   !.feeds_fail = @ + GatherFail(wres)])
    /\ WorkersCleared
    /\ UNCHANGED <<envVars, callVars, fetch_budget, dedupVars, pubVars>>

\* The outer deadline fires before the gathering coroutine has returned: a
\* task is still running, or the last thread has answered and the loop has
\* not yet run the coroutine to its end.  wait_for cancels the coroutine at
\* its await (line 749), raises TimeoutError and main continues with
\* all_entries = [] (lines 463-487); nothing was counted.
FetchTimeout(e) ==
    /\ pc[e] = "fetch"
    /\ elapsed' = [elapsed EXCEPT ![e] = @ + fetch_budget[e]]
    /\ AfterFetch(e, <<>>, stats[e])
    /\ UNCHANGED <<envVars, callVars, fetch_budget, dedupVars, pubVars, workerVars>>

(***************************************************************************)
(* SECTION 9 -- history store                                              *)
(***************************************************************************)
\* The document db.save posts for an item (lines 1134-1150).
Doc(item) ==
    [id |-> DocId(item.content_hash), link |-> item.link, title |-> item.title,
     content_hash |-> item.content_hash, site |-> item.source]

\* The document of an entry published by an earlier run.
DocOf(entry) ==
    [id |-> DocId(_make_hash(entry.title)), link |-> entry.link,
     title |-> entry.title, content_hash |-> _make_hash(entry.title),
     site |-> entry.source]

\* A store that takes every document, whatever its id.
KeyAlwaysFree(st, doc) == TRUE

\* A store that loses the documents it is given.
StoreForgets(st, doc) == st

\* The store's create-by-key: the document is added iff its id is free.
KeyFree(st, doc) == \A d \in st : d.id # doc.id
StoreCreate(st, doc) == IF KeyFree(st, doc) THEN st \cup {doc} ELSE st

\* What db.load_recent and the wait_for around it may give (lines 1103-1129,
\* 505-537): the documents, an empty list on a non-200 answer or a transport
\* error, a requests timeout passed on to the caller, or the outer timeout.
LoadOutcomes == {"ok", "failed", "req_timeout", "wait_timeout"}

\* Lines 510-526: the dedup state built from the loaded records.
LoadedLinks(raw) == {raw[i].link : i \in {j \in 1..Len(raw) : raw[j].link # ""}}
LoadedHashes(raw) == {raw[i].content_hash : i \in 1..Len(raw)}
LoadedFuzzy(raw) ==
    [i \in 1..Len(raw) |->
        [title |-> raw[i].title, title_norm |-> _normalize_text(raw[i].title)]]
LoadedReliability(raw) ==
    [s \in Range(RSS_SOURCES) |-> Cardinality({i \in 1..Len(raw) : raw[i].site = s})]

\* The store serves the GET of db.load_recent (lines 1105-1110) while the
\* execution awaits the load: the documents it returns are those it holds at
\* that moment, in the order of the response; creates served afterwards are
\* not among them.
StoreAnswersLoad(e) ==
    /\ pc[e] = "dbload"
    /\ Min(DB_TIMEOUT, _remaining(e) - 12) > 2
    /\ ~load_reply[e].served
    \* every document once, in an order the store chooses (line 1114)
    /\ \E docs \in {q \in [1..Cardinality(store) -> store] : Range(q) = store} :
          load_reply' = [load_reply EXCEPT ![e] = [served |-> TRUE, docs |-> docs]]
    /\ UNCHANGED <<env, feeds, net, store, configured, callVars, mainVars, dedupVars,
                   pubVars, workerVars>>

\* PHASE 2 (lines 497-541): the awaited load is over, or was not started.
\* The records are those the store returned, in their order (lines 510-522);
\* a non-200 answer or an exception other than a timeout gives no record.
LoadDB(e) ==
    /\ pc[e] = "dbload"
    /\ LET db_budget == Min(DB_TIMEOUT, _remaining(e) - 12)
       IN  IF db_budget > 2
           THEN \E o \in LoadOutcomes :
                  CASE o \in {"ok", "failed"} ->
                         LET raw == IF o = "ok" THEN load_reply[e].docs ELSE <<>>
                         IN  /\ o = "ok" => load_reply[e].served
                             /\ \E d \in 0..db_budget :
                                   elapsed' = [elapsed EXCEPT ![e] = @ + d]
                             /\ known_links' = [known_links EXCEPT ![e] = LoadedLinks(raw)]
                             /\ known_hashes' = [known_hashes EXCEPT ![e] = LoadedHashes(raw)]
                             /\ fuzzy_records' = [fuzzy_records EXCEPT ![e] = LoadedFuzzy(raw)]
                             /\ source_reliability' =
                                   [source_reliability EXCEPT ![e] = LoadedReliability(raw)]
                             /\ UNCHANGED stats
                    [] OTHER ->
                         /\ elapsed' = [elapsed EXCEPT ![e] = @ + db_budget]
                         /\ stats' = [stats EXCEPT ![e].db_timeout = TRUE]
                         /\ UNCHANGED <<known_links, known_hashes, fuzzy_records,
                                        source_reliability>>
           ELSE UNCHANGED <<elapsed, stats, known_links, known_hashes,
                            fuzzy_records, source_reliability>>
    /\ load_reply' = [load_reply EXCEPT ![e] = NoLoad]
    /\ pc' = [pc EXCEPT ![e] = "phase3"]
    /\ idx' = [idx EXCEPT ![e] = 1]
    /\ UNCHANGED <<env, feeds, net, store, configured, callVars, all_entries,
                   fetch_budget, summary, posted_hashes, publish_queue, pubVars,
                   workerVars>>

(***************************************************************************)
(* PHASE 3 -- score, deduplicate, triage (lines 546-640)                   *)
(***************************************************************************)
time_threshold == NowHour - HOURS_THRESHOLD

\* A boost given to every article of a trusted source.
BoostedAlways(result, src_count) ==
    IF src_count > 10 THEN result.score + 1 ELSE result.score

\* Lines 569-572: the boost of a source with more than ten loaded records.
BoostedScore(result, src_count) ==
    IF src_count > 10 /\ result.score >= SCORE_MEDIUM
    THEN result.score + 1 ELSE result.score

\* The tier of the scoring engine, kept whatever the boost.
KeepTier(score, tier) == tier

\* Lines 574-578: the tier after the boost.
BoostedTier(score, tier) ==
    IF score >= SCORE_HIGH THEN "HIGH"
    ELSE IF score >= SCORE_MEDIUM THEN "MEDIUM"
    ELSE tier

Boost(result, src_count) ==
    [score |-> BoostedScore(result, src_count),
     tier |-> BoostedTier(BoostedScore(result, src_count), result.tier),
     candidates |-> result.candidates, topics |-> result.topics]

\* Lines 562-578: score, source-reliability boost, tier after the boost.
Boosted(e, item) ==
    CHOOSE r \in {Boost(result, source_reliability[e][item.source]) :
                      result \in {_score_article(item.title, item.desc)}} : TRUE

\* A chain of filters without the check against the fingerprints admitted
\* in this run.
VerdictNoPosted(e, item, tier, h) ==
    IF item.pub_date # NoDate /\ item.pub_date < time_threshold THEN "skip_time"
    ELSE IF tier = "LOW" THEN "skip_topic"
    ELSE IF h \in known_hashes[e] THEN "skip_dupe"
    ELSE IF item.link \in known_links[e] THEN "skip_dupe"
    ELSE IF _is_fuzzy_duplicate(item.title, fuzzy_records[e]) THEN "skip_dupe"
    ELSE "queue"

\* A chain of filters that reads a missing timestamp as the oldest one.
VerdictUndatedOld(e, item, tier, h) ==
    IF item.pub_date < time_threshold THEN "skip_time"
    ELSE IF tier = "LOW" THEN "skip_topic"
    ELSE IF h \in posted_hashes[e] THEN "skip_dupe"
    ELSE IF h \in known_hashes[e] THEN "skip_dupe"
    ELSE IF item.link \in known_links[e] THEN "skip_dupe"
    ELSE IF _is_fuzzy_duplicate(item.title, fuzzy_records[e]) THEN "skip_dupe"
    ELSE "queue"

\* The chain of filters of lines 557-609 for an entry of tier `tier` and
\* fingerprint h.
VerdictOf(e, item, tier, h) ==
    IF item.pub_date # NoDate /\ item.pub_date < time_threshold THEN "skip_time"
    ELSE IF tier = "LOW" THEN "skip_topic"
    ELSE IF h \in posted_hashes[e] THEN "skip_dupe"
    ELSE IF h \in known_hashes[e] THEN "skip_dupe"
    ELSE IF item.link \in known_links[e] THEN "skip_dupe"
    ELSE IF _is_fuzzy_duplicate(item.title, fuzzy_records[e]) THEN "skip_dupe"
    ELSE "queue"

\* What the loop body decides for one entry.
Verdict(e, item) == VerdictOf(e, item, Boosted(e, item).tier, _make_hash(item.title))

\* Lines 618-625: the queue item built from an entry and its score.
Enrich(item, r) ==
    [title |-> item.title, link |-> item.link, desc |-> item.desc,
     pub_date |-> item.pub_date, source |-> item.source,
     content_hash |-> _make_hash(item.title), score |-> r.score,
     tier |-> r.tier, candidates |-> r.candidates, topics |-> r.topics]

Enriched(e, item) == Enrich(item, Boosted(e, item))

\* A tally that counts a queued article as queued and as a topic skip.
BookedQueuedAsSkipped(st, v, tier) ==
    CASE v = "skip_time" -> [st EXCEPT !.skip_time = @ + 1]
      [] v = "skip_topic" -> [st EXCEPT !.skip_topic = @ + 1, !.queued_low = @ + 1]
      [] v = "skip_dupe" -> [st EXCEPT !.skip_dupe = @ + 1]
      [] OTHER -> IF tier = "HIGH"
                  THEN [st EXCEPT !.queued_high = @ + 1, !.skip_topic = @ + 1]
                  ELSE [st EXCEPT !.queued_medium = @ + 1]

\* Lines 558-559, 580-582, 588-605 and 623-626: the one counter (two for a
\* LOW article) that the loop body adds to for an entry of verdict v.
Booked(st, v, tier) ==
    CASE v = "skip_time" -> [st EXCEPT !.skip_time = @ + 1]
      [] v = "skip_topic" -> [st EXCEPT !.skip_topic = @ + 1, !.queued_low = @ + 1]
      [] v = "skip_dupe" -> [st EXCEPT !.skip_dupe = @ + 1]
      [] OTHER -> IF tier = "HIGH"
                  THEN [st EXCEPT !.queued_high = @ + 1]
                  ELSE [st EXCEPT !.queued_medium = @ + 1]

\* The counters and collections after the loop body decided v for item,
\* whose queue item would be q.
Phase3Book(e, item, v, q) ==
    /\ stats' = [stats EXCEPT ![e] = Booked(@, v, q.tier)]
    /\ IF v = "queue"
       THEN /\ posted_hashes' = [posted_hashes EXCEPT ![e] = @ \cup {q.content_hash}]
            /\ fuzzy_records' = [fuzzy_records EXCEPT ![e] =
                   Append(@, [title |-> item.title,
                              title_norm |-> _normalize_text(item.title)])]
            /\ publish_queue' = [publish_queue EXCEPT ![e] = Append(@, q)]
       ELSE UNCHANGED <<posted_hashes, fuzzy_records, publish_queue>>

\* One pass of the loop body of lines 550-630.
Phase3Step(e) ==
    /\ pc[e] = "phase3"
    /\ idx[e] <= Len(all_entries[e])
    /\ \E item \in {all_entries[e][idx[e]]} :
          \E v \in {Verdict(e, item)}, q \in {Enriched(e, item)} :
              Phase3Book(e, item, v, q)
    /\ idx' = [idx EXCEPT ![e] = @ + 1]
    /\ UNCHANGED <<envVars, callVars, pc, elapsed, all_entries, fetch_budget, summary,
                   known_links, known_hashes, source_reliability, pubVars, workerVars>>

\* A queue left in the order of the candidate list.
Unsorted(s) == s

\* publish_queue.sort(key=score, reverse=True): stable, highest score first.
ScoresHigher(x, y) == x.score > y.score
SortByScore(s) == StableSort(s, ScoresHigher)

\* The loop of phase 3 is over: the queue is sorted and phase 4 starts
\* (lines 632-648).
Phase3Done(e) ==
    /\ pc[e] = "phase3"
    /\ idx[e] > Len(all_entries[e])
    /\ publish_queue' = [publish_queue EXCEPT ![e] = SortByScore(@)]
    /\ batch_posted' = [batch_posted EXCEPT ![e] = 0]
    /\ idx' = [idx EXCEPT ![e] = 1]
    /\ pc' = [pc EXCEPT ![e] = "phase4"]
    /\ UNCHANGED <<envVars, callVars, elapsed, stats, all_entries, fetch_budget, summary,
                   known_links, known_hashes, fuzzy_records, source_reliability,
                   posted_hashes, timestamps, saved, image_urls, tg_budget,
                   attempt, success, sends, events, post_deadline, inflight,
                   reply, workerVars>>

(***************************************************************************)
(* SECTION 4 -- rate limiter                                               *)
(***************************************************************************)
\* A window that still holds a post recorded exactly RATE_WINDOW_SEC ago.
PrunedInclusive(ts, now) == FilterSeq(ts, {t \in Range(ts) : now - t <= RATE_WINDOW_SEC})

\* can_post(): the timestamps of the trailing window, and the answer.
Pruned(ts, now) == FilterSeq(ts, {t \in Range(ts) : now - t < RATE_WINDOW_SEC})
can_post(ts, now) == Len(Pruned(ts, now)) < RATE_LIMIT_PER_MINUTE
\* A limiter that records nothing.
RecordNothing(ts, now) == ts

\* record_post()
record_post(ts, now) == Append(ts, now)

(***************************************************************************)
(* SECTION 15 -- one per-platform post call                                *)
(***************************************************************************)
Forms == {"album", "photo", "text"}
\* The largest number of images the collector is taken to return.
MaxImgs == 2

\* A post call that lets the error of its last form reach the caller.
PostRaises(n, att, out) ==
    LET imgs == IF att > 0 /\ n > 1 THEN 1 ELSE n
        viaText == [tried |-> <<"text">>, result |-> out["text"] = "ok",
                    raised |-> IF out["text"] = "ok" THEN "none" ELSE "TelegramError"]
        viaPhoto == IF out["photo"] = "ok"
                    THEN [tried |-> <<"photo">>, result |-> TRUE, raised |-> "none"]
                    ELSE [viaText EXCEPT !.tried = <<"photo", "text">>]
    IN  IF imgs >= 2
        THEN IF out["album"] = "ok"
             THEN [tried |-> <<"album">>, result |-> TRUE, raised |-> "none"]
             ELSE [viaPhoto EXCEPT !.tried = <<"album">> \o @]
        ELSE IF imgs = 1 THEN viaPhoto
        ELSE viaText

\* A post call that sends the album on a retry too.
PostAlbumOnRetry(n, att, out) ==
    LET photoText == IF out["photo"] = "ok" THEN <<"photo">> ELSE <<"photo", "text">>
        tried == IF n >= 2
                 THEN IF out["album"] = "ok" THEN <<"album">> ELSE <<"album">> \o photoText
                 ELSE IF n = 1 THEN photoText ELSE <<"text">>
    IN  [tried |-> tried, result |-> out[tried[Len(tried)]] = "ok", raised |-> "none"]

\* _post_to_telegram(images, attempt) when the platform answers each form
\* with out[form] ("ok", or "err" for any TelegramError, RetryAfter included):
\* the forms sent, in order, and the value returned.  Every send is inside a
\* try/except TelegramError, so the call raises nothing.
_post_to_telegram(n, att, out) ==
    LET imgs == IF att > 0 /\ n > 1 THEN 1 ELSE n
        viaPhoto == IF out["photo"] = "ok"
                    THEN [tried |-> <<"photo">>, result |-> TRUE, raised |-> "none"]
                    ELSE [tried |-> <<"photo", "text">>, result |-> out["text"] = "ok",
                          raised |-> "none"]
        viaText == [tried |-> <<"text">>, result |-> out["text"] = "ok",
                    raised |-> "none"]
    IN  IF imgs >= 2
        THEN IF out["album"] = "ok"
             THEN [tried |-> <<"album">>, result |-> TRUE, raised |-> "none"]
             ELSE [viaPhoto EXCEPT !.tried = <<"album">> \o @]
        ELSE IF imgs = 1 THEN viaPhoto
        ELSE viaText

AllFail == [f \in Forms |-> "err"]

(***************************************************************************)
(* SECTION 8 -- publish with retry (lines 939-1058)                        *)
(***************************************************************************)
CurrentItem(e) == publish_queue[e][idx[e]]

\* _publish_item_with_retry returns r to the loop of phase 4.
PubReturns(e, r) ==
    /\ success' = [success EXCEPT ![e] = r]
    /\ pc' = [pc EXCEPT ![e] = "pub_ret"]

\* A batch that is never full.
BatchNeverFull(e) == FALSE

\* Line 659: the batch limit is reached.
BatchFull(e) == batch_posted[e] >= PUBLISH_BATCH_SIZE

\* A stop of the loop that tallies nothing.
OverflowUncounted(st, left) == st

\* Lines 654, 661, 670: the items left, the current one included, are
\* added to overflow.
Overflowing(st, left) == [st EXCEPT !.overflow = @ + left]

\* PHASE 4, loop head (lines 650-673) and the publisher up to its first
\* awaited call (lines 944-972).
LoopHead(e) ==
    /\ pc[e] = "phase4"
    /\ LET left == Len(publish_queue[e]) - (idx[e] - 1)
           ts   == Pruned(timestamps[e], elapsed[e])
           stop(st) == /\ Return(e, st)
                       /\ stats' = [stats EXCEPT ![e] = st]
                       /\ UNCHANGED <<saved, sends, success>>
           over == Overflowing(stats[e], left)
       IN  IF idx[e] > Len(publish_queue[e])
           THEN stop(stats[e]) /\ UNCHANGED timestamps
           ELSE IF _remaining(e) < 8
           THEN stop(over) /\ UNCHANGED timestamps
           ELSE IF BatchFull(e)
           THEN stop(over) /\ UNCHANGED timestamps
           ELSE IF ~(Len(ts) < RATE_LIMIT_PER_MINUTE)
           THEN stop(over) /\ timestamps' = [timestamps EXCEPT ![e] = ts]
           ELSE /\ timestamps' = [timestamps EXCEPT ![e] = ts]
                /\ UNCHANGED <<saved, sends>>
                /\ IF Min(DB_TIMEOUT, _remaining(e) - 6) < 1
                   THEN PubReturns(e, FALSE)
                   ELSE /\ pc' = [pc EXCEPT ![e] = "pub_save"]
                        /\ UNCHANGED success
                /\ UNCHANGED <<stats, summary>>
    \* db.save is handed to the executor (line 965): its request is sent
    /\ inflight' = IF pc'[e] = "pub_save"
                   THEN inflight \cup {<<e, Doc(CurrentItem(e))>>}
                   ELSE inflight
    /\ UNCHANGED <<envVars, callVars, elapsed, all_entries, fetch_budget, dedupVars,
                   batch_posted, image_urls, tg_budget, attempt, events,
                   post_deadline, reply, workerVars>>

\* Lines 995-1003: caption, delivery budget; the delivery loop starts or the
\* publisher gives up.  el is the time at which the images are in.
ToPost(e, el) ==
    LET tb == Min(TELEGRAM_TIMEOUT, (GLOBAL_DEADLINE_SEC - el) - 2)
    IN  /\ tg_budget' = [tg_budget EXCEPT ![e] = tb]
        /\ attempt' = [attempt EXCEPT ![e] = 0]
        /\ IF tb < 2
           THEN /\ PubReturns(e, FALSE)
                /\ UNCHANGED post_deadline
           ELSE /\ pc' = [pc EXCEPT ![e] = "pub_post"]
                \* the wait_for of the first pass starts now (line 1007)
                /\ post_deadline' = [post_deadline EXCEPT ![e] = el + tb]
                /\ UNCHANGED success

\* What db.save and the wait_for around it may give (lines 964-979,
\* 1131-1162): created, rejected on a key conflict, failed (another status,
\* a transport error), or the outer timeout.
SaveOutcomes == {"ok", "conflict", "error", "timeout"}

\* A publisher that goes on whatever db.save gave.
SaveAlwaysAllows(o) == TRUE

\* Lines 977-979: the publisher goes on only when db.save returned True.
SaveAllowsDelivery(o) == o = "ok"

\* A db.save that returns True whatever the store did.
AcceptedAlways(r) == TRUE

\* db.save returns True only when the store answered 200 or 201 to the
\* create (lines 1153-1154).
Accepted(r) == r = "created"

\* The awaited db.save is over (lines 964-979, 1131-1162).  It returned True
\* on the 201 of the store, False on its 409, False on another status or on
\* an exception of requests (a refused or broken connection, a lost answer,
\* a timeout), or the wait_for gave up.  A request that failed or was given
\* up stays in flight: the store serves it later, or never (a request that
\* did not reach the store).
PubSave(e) ==
    /\ pc[e] = "pub_save"
    /\ LET save_budget == Min(DB_TIMEOUT, _remaining(e) - 6)
       IN  \E o \in SaveOutcomes, d \in 0..save_budget :
             /\ o = "ok" => Accepted(reply[e])
             /\ o = "conflict" => reply[e] = "conflict"
             /\ o = "timeout" => d = save_budget
             /\ UNCHANGED inflight
             /\ reply' = [reply EXCEPT ![e] = "none"]
             /\ saved' = [saved EXCEPT ![e] = o]
             /\ events' = IF o = "ok"
                          THEN events \cup {<<"saved", e, CurrentItem(e).content_hash>>}
                          ELSE events
             /\ elapsed' = [elapsed EXCEPT ![e] = @ + d]
             /\ IF ~SaveAllowsDelivery(o)
                THEN /\ PubReturns(e, FALSE)
                     /\ UNCHANGED <<image_urls, tg_budget, attempt, post_deadline>>
                ELSE IF Min(IMAGE_SCRAPE_TIMEOUT, (_remaining(e) - d) - 5) > 1
                THEN /\ pc' = [pc EXCEPT ![e] = "pub_images"]
                     /\ UNCHANGED <<image_urls, tg_budget, attempt, success,
                                    post_deadline>>
                ELSE /\ image_urls' = [image_urls EXCEPT ![e] = 0]
                     /\ ToPost(e, elapsed[e] + d)
    /\ UNCHANGED <<envVars, callVars, stats, all_entries, fetch_budget,
                   summary, dedupVars, batch_posted, timestamps, sends, workerVars>>

\* The store serves a save request of execution e (the requests.post of lines
\* 1136-1152): create-by-id, answered 201 or 409.  This happens while db.save is
\* awaited, or later: a request whose answer was lost or came after the
\* timeout of requests (lines 1159-1162) or of the wait_for (973-975, which
\* does not stop the executor thread) is served all the same, also after
\* main returned.
StoreServes(e) ==
    /\ \E x \in inflight :
          /\ x[1] = e
          /\ store' = StoreCreate(store, x[2])
          /\ inflight' = inflight \ {x}
          /\ reply' = IF pc[e] = "pub_save" /\ x[2] = Doc(CurrentItem(e))
                      THEN [reply EXCEPT ![e] =
                              IF KeyFree(store, x[2]) THEN "created" ELSE "conflict"]
                      ELSE reply
    /\ UNCHANGED <<env, feeds, net, configured, load_reply, callVars, mainVars,
                   dedupVars, batch_posted, timestamps, saved, image_urls, tg_budget,
                   attempt, success, sends, events, post_deadline, workerVars>>

\* The awaited image collection is over (lines 983-1003).
PubImages(e) ==
    /\ pc[e] = "pub_images"
    /\ LET img_budget == Min(IMAGE_SCRAPE_TIMEOUT, _remaining(e) - 5)
       IN  \E n \in 0..MaxImgs, d \in 0..img_budget, timeout \in BOOLEAN :
             /\ timeout => d = img_budget /\ n = 0
             /\ image_urls' = [image_urls EXCEPT ![e] = n]
             /\ elapsed' = [elapsed EXCEPT ![e] = @ + d]
             /\ ToPost(e, elapsed[e] + d)
    /\ UNCHANGED <<envVars, callVars, stats, all_entries, fetch_budget, summary, dedupVars,
                   batch_posted, timestamps, saved, sends, events, inflight,
                   reply, workerVars>>

\* The loop of line 1005 goes to its next pass, or ends (line 1058).
NextAttempt(e) ==
    IF attempt[e] + 1 < TG_POST_MAX_RETRIES
    THEN /\ attempt' = [attempt EXCEPT ![e] = @ + 1]
         /\ UNCHANGED <<pc, success>>
    ELSE /\ PubReturns(e, FALSE)
         /\ UNCHANGED attempt

\* A publisher that goes to the next pass whatever the post call returned.
AfterPostGoesOn(e, r, el) ==
    /\ elapsed' = [elapsed EXCEPT ![e] = el]
    /\ UNCHANGED stats
    /\ NextAttempt(e)

\* Lines 1014-1056: what the publisher does with the outcome r of one post
\* call that ended at time el.
AfterPost(e, r, el) ==
    LET rem == GLOBAL_DEADLINE_SEC - el
        last == attempt[e] = TG_POST_MAX_RETRIES - 1
    IN  CASE r.raised = "none" ->
               /\ elapsed' = [elapsed EXCEPT ![e] = el]
               /\ UNCHANGED stats
               /\ IF r.result
                  THEN PubReturns(e, TRUE) /\ UNCHANGED attempt
                  ELSE NextAttempt(e)
          [] r.raised = "RetryAfter" ->
               LET wait == Min(r.retry_after, 3)
               IN  IF rem > wait + 3
                   THEN /\ elapsed' = [elapsed EXCEPT ![e] = el + wait]
                        /\ stats' = [stats EXCEPT ![e].post_retries = @ + 1]
                        /\ NextAttempt(e)
                   ELSE /\ elapsed' = [elapsed EXCEPT ![e] = el]
                        /\ PubReturns(e, FALSE)
                        /\ UNCHANGED <<stats, attempt>>
          [] OTHER ->
               /\ elapsed' = [elapsed EXCEPT ![e] = el]
               /\ IF last /\ image_urls[e] > 0
                  THEN /\ stats' = [stats EXCEPT ![e].post_retries = @ + 1,
                                                 ![e].post_fallbacks = @ + 1]
                       /\ \E fb \in BOOLEAN : PubReturns(e, fb)
                       /\ UNCHANGED attempt
                  ELSE /\ stats' = [stats EXCEPT ![e].post_retries = @ + 1]
                       /\ NextAttempt(e)

\* One awaited send of the post call of the current pass is over (lines
\* 1005-1035, 1470-1537): it was answered, and the post call goes on with its
\* next form or returns to the delivery loop; or the wait_for around the post
\* call fired while the send was awaited.  sends records each send call with
\* its pass and what it gave to the program; a send that the wait_for
\* cancelled is "cut".
PubPost(e) ==
    /\ pc[e] = "pub_post"
    /\ LET h == CurrentItem(e).content_hash
           \* the send calls the post call of this pass has made so far
           made == SelectSeq(sends[e], LAMBDA c : c.attempt = attempt[e])
           k == Len(made) + 1
           form == _post_to_telegram(image_urls[e], attempt[e], AllFail).tried[k]
       IN  /\ events' = events \cup {<<"sent", e, h>>}
           /\ \/ \E a \in {"ok", "err"}, d \in 0..(post_deadline[e] - elapsed[e]) :
                   \* the forms sent earlier in this pass were refused
                   LET out == [f \in Forms |-> IF f = form THEN a ELSE "err"]
                       r == _post_to_telegram(image_urls[e], attempt[e], out)
                   IN  /\ sends' = [sends EXCEPT ![e] =
                              Append(@, [form |-> form, attempt |-> attempt[e], answer |-> a])]
                       /\ IF Len(r.tried) > k
                          THEN /\ elapsed' = [elapsed EXCEPT ![e] = @ + d]
                               /\ UNCHANGED <<pc, stats, attempt, success>>
                          ELSE AfterPost(e, r, elapsed[e] + d)
              \/ LET el == post_deadline[e]
                 IN  /\ sends' = [sends EXCEPT ![e] =
                            Append(@, [form |-> form, attempt |-> attempt[e], answer |-> "cut"])]
                     /\ elapsed' = [elapsed EXCEPT ![e] = el]
                     /\ stats' = [stats EXCEPT ![e].post_retries = @ + 1]
                     /\ IF attempt[e] < TG_POST_MAX_RETRIES - 1
                           /\ GLOBAL_DEADLINE_SEC - el > 4
                        THEN /\ attempt' = [attempt EXCEPT ![e] = @ + 1]
                             /\ UNCHANGED <<pc, success>>
                        ELSE /\ PubReturns(e, FALSE)
                             /\ UNCHANGED attempt
           \* the wait_for of a new pass starts when the pass does (line 1007)
           /\ post_deadline' = [post_deadline EXCEPT ![e] =
                  IF attempt'[e] # attempt[e] THEN elapsed'[e] + tg_budget[e] ELSE @]
    /\ UNCHANGED <<envVars, callVars, all_entries, fetch_budget, summary, dedupVars,
                   batch_posted, timestamps, saved, image_urls, tg_budget, inflight,
                   reply, workerVars>>

\* Lines 678-688: the loop of phase 4 books the outcome of the publish call.
PubReturn(e) ==
    /\ pc[e] = "pub_ret"
    /\ IF success[e]
       THEN /\ stats' = [stats EXCEPT ![e].posted = @ + 1]
            /\ batch_posted' = [batch_posted EXCEPT ![e] = @ + 1]
            /\ timestamps' = [timestamps EXCEPT ![e] = record_post(@, elapsed[e])]
            /\ known_hashes' = [known_hashes EXCEPT ![e] = @ \cup {CurrentItem(e).content_hash}]
            /\ known_links' = [known_links EXCEPT ![e] = @ \cup {CurrentItem(e).link}]
            /\ pc' = [pc EXCEPT ![e] =
                  IF _remaining(e) > 4 /\ batch_posted[e] + 1 < PUBLISH_BATCH_SIZE
                  THEN "sleep" ELSE "phase4"]
       ELSE /\ stats' = [stats EXCEPT ![e].errors = @ + 1]
            /\ pc' = [pc EXCEPT ![e] = "phase4"]
            /\ UNCHANGED <<batch_posted, timestamps, known_hashes, known_links>>
    /\ idx' = [idx EXCEPT ![e] = @ + 1]
    \* the publisher's locals are gone
    /\ saved' = [saved EXCEPT ![e] = "none"]
    /\ image_urls' = [image_urls EXCEPT ![e] = 0]
    /\ tg_budget' = [tg_budget EXCEPT ![e] = 0]
    /\ attempt' = [attempt EXCEPT ![e] = 0]
    /\ post_deadline' = [post_deadline EXCEPT ![e] = 0]
    /\ sends' = [sends EXCEPT ![e] = <<>>]
    /\ UNCHANGED <<envVars, callVars, elapsed, all_entries, fetch_budget, summary,
                   fuzzy_records, source_reliability, posted_hashes, publish_queue,
                   success, events, inflight, reply, workerVars>>

\* A sleep that never returns.
SleepForever(e) == pc[e] = "sleep" /\ UNCHANGED vars

\* await asyncio.sleep(INTER_POST_DELAY) (line 686).
Sleep(e) ==
    /\ pc[e] = "sleep"
    /\ elapsed' = [elapsed EXCEPT ![e] = @ + INTER_POST_DELAY]
    /\ pc' = [pc EXCEPT ![e] = "phase4"]
    /\ UNCHANGED <<envVars, callVars, stats, all_entries, fetch_budget, summary, dedupVars,
                   pubVars, workerVars>>

(***************************************************************************)
(* Specification of one run                                                *)
(***************************************************************************)
\* The feeds of the sources: the first serves a publishable entry and one
\* without a title, the second one publishable entry, the others nothing.
RunFeed(s) ==
    CASE s = 1 -> <<FeedItems[1], Item(<<>>, "l13", <<>>, 99)>>
      [] s = 2 -> <<FeedItems[2]>>
      [] OTHER -> <<>>
\* Each server of a run of the whole pipeline either answers at once or is down.
RunNets == {{"ok200"}, {"conn"}}
\* The documents earlier runs may have left in the history store.
OldDocs == {DocOf(FeedItems[2] @@ [source |-> "ISNA"])}

Init ==
    /\ InitCommon
    /\ NoCallPending
    /\ env = DefaultEnv
    /\ feeds = [s \in SourceIds |-> RunFeed(s)]
    /\ net \in [SourceIds -> RunNets]
    /\ store \in SUBSET OldDocs
    /\ \E c \in BOOLEAN : configured = [e \in Execs |-> IF e = "A" THEN c ELSE TRUE]
    /\ load_reply = [e \in Execs |-> NoLoad]
    /\ pc = [e \in Execs |-> IF e = "A" THEN "entry" ELSE "off"]

Next ==
    \E e \in {"A"} :
        \/ Entry(e)
        \/ \E s \in SourceIds : WorkerRequest(e, s)
        \/ \E s \in SourceIds : WorkerRetryRead(e, s)
        \/ \E s \in SourceIds : WorkerRetryWrite(e, s)
        \/ GatherDone(e)
        \/ FetchTimeout(e)
        \/ StoreAnswersLoad(e)
        \/ LoadDB(e)
        \/ Phase3Step(e)
        \/ Phase3Done(e)
        \/ LoopHead(e)
        \/ PubSave(e)
        \/ StoreServes(e)
        \/ PubImages(e)
        \/ PubPost(e)
        \/ PubReturn(e)
        \/ Sleep(e)

Spec == Init /\ [][Next]_vars

\* The same run when every step that can be taken is eventually taken: the
\* event loop keeps running and every awaited call returns or is cancelled.
SpecLive == Init /\ [][Next]_vars /\ WF_vars(Next)

(***************************************************************************)
(* Specification of the fetch phase, with servers that may answer anything *)
(***************************************************************************)
InitFetch ==
    /\ InitCommon
    /\ NoCallPending
    /\ env = DefaultEnv
    /\ feeds = [s \in SourceIds |-> RunFeed(s)]
    /\ net = [s \in SourceIds |-> Responses]
    /\ store = {}
    /\ configured = [e \in Execs |-> TRUE]
    /\ load_reply = [e \in Execs |-> NoLoad]
    /\ pc = [e \in Execs |-> IF e = "A" THEN "entry" ELSE "off"]

NextFetch ==
    \E e \in {"A"} :
        \/ Entry(e)
        \/ \E s \in SourceIds : WorkerRequest(e, s)
        \/ \E s \in SourceIds : WorkerRetryRead(e, s)
        \/ \E s \in SourceIds : WorkerRetryWrite(e, s)
        \/ GatherDone(e)
        \/ FetchTimeout(e)

SpecFetch == InitFetch /\ [][NextFetch]_vars

(***************************************************************************)
(* Specification of phase 3 over any short list of fetched entries         *)
(***************************************************************************)
\* The longest list of fetched entries.
MaxEntries == 3

\* The entries the fetch phase may hand over: any feed item, fetched from the
\* first source.
TriageEntries ==
    {FeedItems[i] @@ [source |-> RSS_SOURCES[s]] :
        i \in 1..Len(FeedItems), s \in {1}}

\* The dedup state of phase 2 after the records raw were loaded.
Loaded(e, raw) ==
    /\ known_links = [x \in Execs |-> IF x = e THEN LoadedLinks(raw) ELSE {}]
    /\ known_hashes = [x \in Execs |-> IF x = e THEN LoadedHashes(raw) ELSE {}]
    /\ fuzzy_records = [x \in Execs |-> IF x = e THEN LoadedFuzzy(raw) ELSE <<>>]
    /\ source_reliability =
          [x \in Execs |-> IF x = e THEN LoadedReliability(raw)
                           ELSE [s \in Range(RSS_SOURCES) |-> 0]]

\* Phase 3 is about to start at one of the times starts, under one of the
\* environments envs, with a history store that answers the load with one of
\* the lists of documents responses, and with up to MaxEntries entries among
\* items.
TriageStart(envs, responses, items, starts) ==
    /\ env \in envs
    /\ feeds = [s \in SourceIds |-> <<>>]
    /\ net = [s \in SourceIds |-> Responses]
    /\ configured = [e \in Execs |-> TRUE]
    /\ load_reply = [e \in Execs |-> NoLoad]
    /\ pc = [e \in Execs |-> IF e = "A" THEN "phase3" ELSE "off"]
    /\ \E t \in starts : elapsed = [e \in Execs |-> IF e = "A" THEN t ELSE 0]
    /\ \E entries \in SeqsUpTo(items, MaxEntries) :
          /\ entries # <<>>
          /\ all_entries = [e \in Execs |-> IF e = "A" THEN SortByDate(entries) ELSE <<>>]
          /\ stats = [e \in Execs |->
                IF e = "A" THEN [InitStats EXCEPT !.feeds_ok = NumSources,
                                                  !.entries_total = Len(entries)]
                ELSE InitStats]
    \* the history was loaded, in the order of the response, or the load failed
    /\ \E raw \in responses, ok \in BOOLEAN :
          /\ store = Range(raw)
          /\ Loaded("A", IF ok THEN raw ELSE <<>>)
    /\ posted_hashes = [e \in Execs |-> {}]
    /\ publish_queue = [e \in Execs |-> <<>>]
    /\ idx = [e \in Execs |-> 1]
    /\ batch_posted = [e \in Execs |-> 0]
    /\ timestamps = [e \in Execs |-> <<>>]
    /\ fetch_budget = [e \in Execs |-> FEEDS_TOTAL_TIMEOUT]
    /\ saved = [e \in Execs |-> "none"]
    /\ image_urls = [e \in Execs |-> 0]
    /\ tg_budget = [e \in Execs |-> 0]
    /\ attempt = [e \in Execs |-> 0]
    /\ success = [e \in Execs |-> FALSE]
    /\ sends = [e \in Execs |-> <<>>]
    /\ summary = [e \in Execs |-> NoSummary]
    /\ events = {}
    /\ post_deadline = [e \in Execs |-> 0]
    /\ inflight = {}
    /\ reply = [e \in Execs |-> "none"]
    /\ wpc = [s \in SourceIds |-> "idle"]
    /\ wattempt = [s \in SourceIds |-> 0]
    /\ wres = [s \in SourceIds |-> NoResult]
    /\ wtmp = [s \in SourceIds |-> 0]
    /\ wretries = [s \in SourceIds |-> 0]
    /\ wsleeps = [s \in SourceIds |-> <<>>]
    /\ NoCallPending

InitTriage ==
    TriageStart({DefaultEnv}, {<<>>} \cup {<<d>> : d \in OldDocs}, TriageEntries, {0})

NextTriage == \E e \in {"A"} : Phase3Step(e) \/ Phase3Done(e)

SpecTriage == InitTriage /\ [][NextTriage]_vars

(***************************************************************************)
(* Specification of phase 3 under configured thresholds and a trusted      *)
(* source                                                                  *)
(***************************************************************************)
\* Values of SCORE_HIGH and SCORE_MEDIUM the environment may set.
ThresholdEnvs ==
    {[DefaultEnv EXCEPT !.SCORE_HIGH = 5], [DefaultEnv EXCEPT !.SCORE_MEDIUM = -1]}

\* Eleven documents of earlier runs from the first source, which make it a
\* trusted source (src_count > 10, line 571); their one-word titles match no
\* entry of the feeds.
TrustedTitles ==
    <<"old1", "old2", "old3", "old4", "old5", "old6", "old7", "old8", "old9",
      "old10", "old11">>
\* The store returns them oldest first, or newest first.
TrustedResponses ==
    LET n == Len(TrustedTitles)
        TrustedDoc(w) ==
            [id |-> DocId(<<w>>), link |-> w, title |-> <<w>>,
             content_hash |-> <<w>>, site |-> RSS_SOURCES[1]]
    IN  {[i \in 1..n |-> TrustedDoc(TrustedTitles[i])],
         [i \in 1..n |-> TrustedDoc(TrustedTitles[n + 1 - i])]}

InitThresholds == TriageStart(ThresholdEnvs, TrustedResponses, TriageEntries, {0})

SpecThresholds == InitThresholds /\ [][NextTriage]_vars

(***************************************************************************)
(* Specification of two executions publishing against one history store    *)
(***************************************************************************)
\* The queue item phase 3 builds from an entry of a source without boost.
QueueItem(entry) == Enrich(entry, Boost(_score_article(entry.title, entry.desc), 0))

\* Both executions queued the same story; B got it from another feed, with
\* the words of the title in another order.
RaceQueue(e) ==
    IF e = "A" THEN <<QueueItem(FeedItems[1] @@ [source |-> "Fars"])>>
    ELSE <<QueueItem(FeedItems[4] @@ [source |-> "ISNA"])>>

InitRace ==
    /\ env = DefaultEnv
    /\ feeds = [s \in SourceIds |-> RunFeed(s)]
    /\ net = [s \in SourceIds |-> Responses]
    /\ store = {}
    /\ configured = [e \in Execs |-> TRUE]
    /\ load_reply = [e \in Execs |-> NoLoad]
    /\ pc = [e \in Execs |-> "phase4"]
    \* phase 4 starts at the latest when fetch and history load used their budgets
    /\ elapsed = [e \in Execs |-> FEEDS_TOTAL_TIMEOUT + DB_TIMEOUT]
    /\ all_entries = [e \in Execs |-> <<>>]
    /\ stats = [e \in Execs |-> [InitStats EXCEPT !.feeds_ok = NumSources,
                                                  !.entries_total = 1,
                                                  !.queued_high = 1,
                                                  !.db_timeout = TRUE]]
    /\ known_links = [e \in Execs |-> {}]
    /\ known_hashes = [e \in Execs |-> {}]
    /\ source_reliability = [e \in Execs |-> [s \in Range(RSS_SOURCES) |-> 0]]
    /\ publish_queue = [e \in Execs |-> RaceQueue(e)]
    /\ posted_hashes = [e \in Execs |-> {RaceQueue(e)[1].content_hash}]
    /\ fuzzy_records = [e \in Execs |->
          <<[title |-> RaceQueue(e)[1].title,
             title_norm |-> _normalize_text(RaceQueue(e)[1].title)]>>]
    /\ idx = [e \in Execs |-> 1]
    /\ batch_posted = [e \in Execs |-> 0]
    /\ timestamps = [e \in Execs |-> <<>>]
    /\ fetch_budget = [e \in Execs |-> FEEDS_TOTAL_TIMEOUT]
    /\ saved = [e \in Execs |-> "none"]
    /\ image_urls = [e \in Execs |-> 0]
    /\ tg_budget = [e \in Execs |-> 0]
    /\ attempt = [e \in Execs |-> 0]
    /\ success = [e \in Execs |-> FALSE]
    /\ sends = [e \in Execs |-> <<>>]
    /\ summary = [e \in Execs |-> NoSummary]
    /\ events = {}
    /\ post_deadline = [e \in Execs |-> 0]
    /\ inflight = {}
    /\ reply = [e \in Execs |-> "none"]
    /\ wpc = [s \in SourceIds |-> "idle"]
    /\ wattempt = [s \in SourceIds |-> 0]
    /\ wres = [s \in SourceIds |-> NoResult]
    /\ wtmp = [s \in SourceIds |-> 0]
    /\ wretries = [s \in SourceIds |-> 0]
    /\ wsleeps = [s \in SourceIds |-> <<>>]
    /\ NoCallPending

NextRace ==
    \E e \in Execs :
        \/ LoopHead(e)
        \/ PubSave(e)
        \/ StoreServes(e)
        \/ PubImages(e)
        \/ PubPost(e)
        \/ PubReturn(e)
        \/ Sleep(e)

SpecRace == InitRace /\ [][NextRace]_vars

(***************************************************************************)
(* Specification of a run followed by a later run on the same store        *)
(***************************************************************************)
\* The story as the later run fetches it: the same entry, or the entry of
\* another feed with the words of the title in another order, another link
\* and another date.
RerunEntries ==
    {<<FeedItems[1] @@ [source |-> "Fars"]>>, <<FeedItems[4] @@ [source |-> "ISNA"]>>}

\* Run A is about to publish the story; run B, which starts when A is over,
\* has fetched it again.
InitRerun ==
    /\ env = DefaultEnv
    /\ feeds = [s \in SourceIds |-> RunFeed(s)]
    /\ net = [s \in SourceIds |-> Responses]
    \* the store holds the record of another story, published earlier
    /\ store = OldDocs
    /\ configured = [e \in Execs |-> TRUE]
    /\ load_reply = [e \in Execs |-> NoLoad]
    /\ pc = [e \in Execs |-> IF e = "A" THEN "phase4" ELSE "dbload"]
    \* run B used its whole fetch budget, as run A did
    /\ elapsed = [e \in Execs |->
          IF e = "A" THEN FEEDS_TOTAL_TIMEOUT + DB_TIMEOUT ELSE FEEDS_TOTAL_TIMEOUT]
    /\ \E entries \in RerunEntries :
          all_entries = [e \in Execs |-> IF e = "A" THEN <<>> ELSE entries]
    /\ stats = [e \in Execs |->
          IF e = "A"
          THEN [InitStats EXCEPT !.feeds_ok = NumSources, !.entries_total = 1,
                                 !.queued_high = 1]
          ELSE [InitStats EXCEPT !.feeds_ok = NumSources, !.entries_total = 1]]
    /\ known_links = [e \in Execs |-> {}]
    /\ known_hashes = [e \in Execs |-> {}]
    /\ source_reliability = [e \in Execs |-> [s \in Range(RSS_SOURCES) |-> 0]]
    /\ publish_queue = [e \in Execs |-> IF e = "A" THEN RaceQueue("A") ELSE <<>>]
    /\ posted_hashes = [e \in Execs |->
          IF e = "A" THEN {RaceQueue("A")[1].content_hash} ELSE {}]
    /\ fuzzy_records = [e \in Execs |->
          IF e = "A" THEN <<FuzzyRecord(RaceQueue("A")[1].title)>> ELSE <<>>]
    /\ idx = [e \in Execs |-> 1]
    /\ batch_posted = [e \in Execs |-> 0]
    /\ timestamps = [e \in Execs |-> <<>>]
    /\ fetch_budget = [e \in Execs |-> FEEDS_TOTAL_TIMEOUT]
    /\ saved = [e \in Execs |-> "none"]
    /\ image_urls = [e \in Execs |-> 0]
    /\ tg_budget = [e \in Execs |-> 0]
    /\ attempt = [e \in Execs |-> 0]
    /\ success = [e \in Execs |-> FALSE]
    /\ sends = [e \in Execs |-> <<>>]
    /\ summary = [e \in Execs |-> NoSummary]
    /\ events = {}
    /\ post_deadline = [e \in Execs |-> 0]
    /\ inflight = {}
    /\ reply = [e \in Execs |-> "none"]
    /\ wpc = [s \in SourceIds |-> "idle"]
    /\ wattempt = [s \in SourceIds |-> 0]
    /\ wres = [s \in SourceIds |-> NoResult]
    /\ wtmp = [s \in SourceIds |-> 0]
    /\ wretries = [s \in SourceIds |-> 0]
    /\ wsleeps = [s \in SourceIds |-> <<>>]
    /\ NoCallPending

NextRerun ==
    \/ \E e \in {"A"} :
          \/ LoopHead(e)
          \/ PubSave(e)
          \/ StoreServes(e)
          \/ PubImages(e)
          \/ PubPost(e)
          \/ PubReturn(e)
          \/ Sleep(e)
    \/ /\ pc["A"] = "done"
       /\ \E e \in {"B"} :
             \/ StoreAnswersLoad(e)
             \/ LoadDB(e)
             \/ Phase3Step(e)
             \/ Phase3Done(e)
             \/ LoopHead(e)
             \/ PubSave(e)
             \/ StoreServes(e)
             \/ PubImages(e)
             \/ PubPost(e)
             \/ PubReturn(e)
             \/ Sleep(e)

SpecRerun == InitRerun /\ [][NextRerun]_vars

(***************************************************************************)
(* Specification of phase 4 for one execution                              *)
(***************************************************************************)
\* The longest publish queue.
MaxQueue == 3

\* The queue phase 3 hands over: up to MaxQueue articles, highest score first.
PublishQueues ==
    {SubSeq(SortByScore(<<QueueItem(FeedItems[2] @@ [source |-> RSS_SOURCES[1]]),
                          QueueItem(FeedItems[1] @@ [source |-> RSS_SOURCES[1]]),
                          QueueItem(FeedItems[9] @@ [source |-> RSS_SOURCES[1]]),
                          QueueItem(FeedItems[12] @@ [source |-> RSS_SOURCES[1]])>>),
             1, n) : n \in 0..MaxQueue}

\* Batch sizes and rate caps the environment may set.
PublishEnvs ==
    {[DefaultEnv EXCEPT !.PUBLISH_BATCH_SIZE = 2],
     [DefaultEnv EXCEPT !.RATE_LIMIT_PER_MINUTE = 1]}

\* The number of items of tier `tier` in queue q.
Queued(q, tier) == Cardinality({i \in 1..Len(q) : q[i].tier = tier})

\* Phase 4 starts when fetch and history load have used their budgets.
InitPublish ==
    /\ env \in PublishEnvs
    /\ feeds = [s \in SourceIds |-> <<>>]
    /\ net = [s \in SourceIds |-> Responses]
    /\ store = {}
    /\ configured = [e \in Execs |-> TRUE]
    /\ load_reply = [e \in Execs |-> NoLoad]
    /\ pc = [e \in Execs |-> IF e = "A" THEN "phase4" ELSE "off"]
    /\ elapsed = [e \in Execs |-> IF e = "A" THEN FEEDS_TOTAL_TIMEOUT + DB_TIMEOUT ELSE 0]
    /\ all_entries = [e \in Execs |-> <<>>]
    /\ \E q \in PublishQueues :
          /\ publish_queue = [e \in Execs |-> IF e = "A" THEN q ELSE <<>>]
          /\ stats = [e \in Execs |->
                IF e = "A"
                THEN [InitStats EXCEPT !.feeds_ok = NumSources,
                                       !.entries_total = Len(q),
                                       !.queued_high = Queued(q, "HIGH"),
                                       !.queued_medium = Queued(q, "MEDIUM")]
                ELSE InitStats]
          /\ posted_hashes = [e \in Execs |->
                IF e = "A" THEN {q[i].content_hash : i \in 1..Len(q)} ELSE {}]
          /\ fuzzy_records = [e \in Execs |->
                IF e = "A" THEN [i \in 1..Len(q) |-> FuzzyRecord(q[i].title)] ELSE <<>>]
    /\ known_links = [e \in Execs |-> {}]
    /\ known_hashes = [e \in Execs |-> {}]
    /\ source_reliability = [e \in Execs |-> [s \in Range(RSS_SOURCES) |-> 0]]
    /\ idx = [e \in Execs |-> 1]
    /\ batch_posted = [e \in Execs |-> 0]
    /\ timestamps = [e \in Execs |-> <<>>]
    /\ fetch_budget = [e \in Execs |-> FEEDS_TOTAL_TIMEOUT]
    /\ saved = [e \in Execs |-> "none"]
    /\ image_urls = [e \in Execs |-> 0]
    /\ tg_budget = [e \in Execs |-> 0]
    /\ attempt = [e \in Execs |-> 0]
    /\ success = [e \in Execs |-> FALSE]
    /\ sends = [e \in Execs |-> <<>>]
    /\ summary = [e \in Execs |-> NoSummary]
    /\ events = {}
    /\ post_deadline = [e \in Execs |-> 0]
    /\ inflight = {}
    /\ reply = [e \in Execs |-> "none"]
    /\ wpc = [s \in SourceIds |-> "idle"]
    /\ wattempt = [s \in SourceIds |-> 0]
    /\ wres = [s \in SourceIds |-> NoResult]
    /\ wtmp = [s \in SourceIds |-> 0]
    /\ wretries = [s \in SourceIds |-> 0]
    /\ wsleeps = [s \in SourceIds |-> <<>>]
    /\ NoCallPending

NextPublish ==
    \E e \in {"A"} :
        \/ LoopHead(e)
        \/ PubSave(e)
        \/ StoreServes(e)
        \/ PubImages(e)
        \/ PubPost(e)
        \/ PubReturn(e)
        \/ Sleep(e)

SpecPublish == InitPublish /\ [][NextPublish]_vars

(***************************************************************************)
(* Specification of phases 3 and 4 for one execution                       *)
(***************************************************************************)
\* Entries whose order by date differs from their order by score: two of
\* equal score and different dates, and one of higher score without a date.
OrderEntries ==
    {FeedItems[i] @@ [source |-> RSS_SOURCES[1]] : i \in {5, 7, 9}}

\* Phase 3 starts when fetch and history load have used their budgets, with
\* an empty history.
InitOrder ==
    TriageStart({DefaultEnv}, {<<>>}, OrderEntries, {FEEDS_TOTAL_TIMEOUT + DB_TIMEOUT})

NextOrder ==
    \E e \in {"A"} :
        \/ Phase3Step(e)
        \/ Phase3Done(e)
        \/ LoopHead(e)
        \/ PubSave(e)
        \/ StoreServes(e)
        \/ PubImages(e)
        \/ PubPost(e)
        \/ PubReturn(e)
        \/ Sleep(e)

SpecOrder == InitOrder /\ [][NextOrder]_vars

(***************************************************************************)
(* Specification of the pure functions called on their own                 *)
(***************************************************************************)
\* The longest title given to the fingerprint.
MaxTitleLen == 3

\* Words of titles: keywords, a spelling that case folding changes, a
\* stopword and a one-character word.
HashWords == {"election", "results", "Election", "the", "x"}
HashTitles == SeqsUpTo(HashWords, MaxTitleLen)

\* The fingerprints of two titles are computed: any title, and one of at
\* most two words.
HashCalls(titles) ==
    {[fn |-> "_make_hash", t1 |-> a, t2 |-> b] :
        a \in titles, b \in {t \in titles : Len(t) <= 2}}

MakeHashes ==
    /\ call.fn = "_make_hash"
    /\ ~ret.done
    /\ ret' = [done |-> TRUE, h1 |-> _make_hash(call.t1), h2 |-> _make_hash(call.t2)]
    /\ UNCHANGED <<envVars, mainVars, dedupVars, pubVars, workerVars, call>>

\* The most stored records a title is compared with.
MaxRecords == 2

\* Titles for the comparison: every run of consecutive words of a list of
\* eight keywords, and titles with a repeated word, a stopword and a
\* one-character word.
FuzzyWords ==
    <<"campaign", "election", "jalili", "monazereh", "negahban", "rad",
      "results", "salahiyat">>
FuzzyTitles ==
    {SubSeq(FuzzyWords, i, j) : i \in 1..Len(FuzzyWords), j \in 0..Len(FuzzyWords)}
    \cup {<<"election", "election">>, <<"the", "election">>,
          <<"x", "election", "results">>, <<"Election", "results:", "--">>}

\* The titles of the stored records: none, one token, one token and a
\* stopword, and runs of 3, 5, 7 and 8 keywords.
StoredTitles ==
    {SubSeq(FuzzyWords, r[1], r[2]) :
        r \in {<<1, 0>>, <<2, 2>>, <<1, 5>>, <<2, 6>>, <<2, 8>>, <<6, 8>>, <<1, 8>>}}
    \cup {<<"the", "election">>}

\* A title is compared with a list of stored records.
FuzzyCalls ==
    {[fn |-> "_is_fuzzy_duplicate", title |-> a, records |-> r] :
        a \in FuzzyTitles,
        r \in SeqsUpTo({FuzzyRecord(b) : b \in StoredTitles}, MaxRecords)}

IsFuzzyDuplicate ==
    /\ call.fn = "_is_fuzzy_duplicate"
    /\ ~ret.done
    /\ ret' = [done |-> TRUE, value |-> _is_fuzzy_duplicate(call.title, call.records)]
    /\ UNCHANGED <<envVars, mainVars, dedupVars, pubVars, workerVars, call>>

\* Two titles are compared both ways, each with the single record of the other.
FuzzyPairCalls == {[fn |-> "fuzzy_both_ways", a |-> a, b |-> b] : a, b \in FuzzyTitles}

FuzzyBothWays ==
    /\ call.fn = "fuzzy_both_ways"
    /\ ~ret.done
    /\ ret' = [done |-> TRUE,
               ab |-> _is_fuzzy_duplicate(call.a, <<FuzzyRecord(call.b)>>),
               ba |-> _is_fuzzy_duplicate(call.b, <<FuzzyRecord(call.a)>>)]
    /\ UNCHANGED <<envVars, mainVars, dedupVars, pubVars, workerVars, call>>

\* What the platform may answer to one send: success, a TelegramError, or
\* RetryAfter (too many requests), which is a TelegramError.
Answers == {"ok", "err", "retry_after"}

\* One per-platform post call, with any number of images, on any pass of
\* the delivery loop, each form being answered in any way.
PostCalls ==
    {[fn |-> "_post_to_telegram", n |-> n, att |-> a, out |-> o] :
        n \in 0..MaxImgs, a \in 0..(TG_POST_MAX_RETRIES - 1), o \in [Forms -> Answers]}

PostToTelegram ==
    /\ call.fn = "_post_to_telegram"
    /\ ~ret.done
    /\ ret' = [done |-> TRUE, value |-> _post_to_telegram(call.n, call.att, call.out)]
    /\ UNCHANGED <<envVars, mainVars, dedupVars, pubVars, workerVars, call>>

\* One of the calls is about to be made, under one of the environments envs.
PureStart(envs, calls) ==
    /\ InitCommon
    /\ env \in envs
    /\ feeds = [s \in SourceIds |-> <<>>]
    /\ net = [s \in SourceIds |-> Responses]
    /\ store = {}
    /\ configured = [e \in Execs |-> TRUE]
    /\ load_reply = [e \in Execs |-> NoLoad]
    /\ pc = [e \in Execs |-> "off"]
    /\ call \in calls
    /\ ret = NoRet

InitPure ==
    PureStart({DefaultEnv},
              HashCalls(HashTitles) \cup FuzzyCalls \cup FuzzyPairCalls \cup PostCalls)

NextPure ==
    \/ MakeHashes
    \/ IsFuzzyDuplicate
    \/ FuzzyBothWays
    \/ PostToTelegram

SpecPure == InitPure /\ [][NextPure]_vars

(***************************************************************************)
(* Specification of the scoring engine called on its own                   *)
(***************************************************************************)
\* The longest title and the longest description given to the scorer.
MaxScoreLen == 2

\* Words of the scored texts: a core keyword, the two words of a core
\* keyword that is also a topic pattern, a contextual keyword that is a
\* topic pattern, and two candidates.
ScoreWords == {"election", "rad", "salahiyat", "monazereh", "zarif", "jalili"}

\* An article with any title and any description is scored.
ScoreCalls(texts) ==
    {[fn |-> "_score_article", title |-> t, desc |-> d] : t, d \in texts}

\* The thresholds of the scorer: the defaults, and a higher SCORE_MEDIUM.
ScoreEnvs == {DefaultEnv, [DefaultEnv EXCEPT !.SCORE_MEDIUM = 5]}

ScoreArticle ==
    /\ call.fn = "_score_article"
    /\ ~ret.done
    /\ ret' = [done |-> TRUE, value |-> _score_article(call.title, call.desc)]
    /\ UNCHANGED <<envVars, mainVars, dedupVars, pubVars, workerVars, call>>

InitScore == PureStart(ScoreEnvs, ScoreCalls(SeqsUpTo(ScoreWords, MaxScoreLen)))

NextScore == ScoreArticle

SpecScore == InitScore /\ [][NextScore]_vars

(***************************************************************************)
(* Specification of the rate limiter on its own                            *)
(***************************************************************************)
\* The last second of the clock, and the most posts recorded.
MaxClock == 61
MaxPosts == 2

\* The cap the environment sets: as many posts as are recorded at most.
RateEnvs == {[DefaultEnv EXCEPT !.RATE_LIMIT_PER_MINUTE = MaxPosts]}

\* A limiter is constructed (lines 387-389); call.recorded keeps the time of
\* every post recorded on it.
InitRate ==
    /\ InitCommon
    /\ env \in RateEnvs
    /\ feeds = [s \in SourceIds |-> <<>>]
    /\ net = [s \in SourceIds |-> Responses]
    /\ store = {}
    /\ configured = [e \in Execs |-> TRUE]
    /\ load_reply = [e \in Execs |-> NoLoad]
    /\ pc = [e \in Execs |-> "off"]
    /\ call = [fn |-> "_RateLimiter", recorded |-> <<>>]
    /\ ret = NoRet

\* A second passes on the monotonic clock.
RateTick(e) ==
    /\ call.fn = "_RateLimiter"
    /\ elapsed[e] < MaxClock
    /\ elapsed' = [elapsed EXCEPT ![e] = @ + 1]
    /\ ret' = NoRet
    /\ UNCHANGED <<envVars, pc, stats, all_entries, fetch_budget, summary,
                   dedupVars, pubVars, workerVars, call>>

\* can_post() (lines 391-394): the list is pruned and the answer returned.
RateCanPost(e) ==
    /\ call.fn = "_RateLimiter"
    /\ timestamps' = [timestamps EXCEPT ![e] = Pruned(@, elapsed[e])]
    /\ ret' = [done |-> TRUE, value |-> can_post(timestamps[e], elapsed[e])]
    /\ UNCHANGED <<envVars, mainVars, dedupVars, batch_posted, saved, image_urls,
                   tg_budget, attempt, success, sends, events, post_deadline,
                   inflight, reply, workerVars, call>>

\* record_post() (lines 396-397).
RateRecordPost(e) ==
    /\ call.fn = "_RateLimiter"
    /\ Len(call.recorded) < MaxPosts
    /\ timestamps' = [timestamps EXCEPT ![e] = record_post(@, elapsed[e])]
    /\ call' = [call EXCEPT !.recorded = Append(@, elapsed[e])]
    /\ ret' = NoRet
    /\ UNCHANGED <<envVars, mainVars, dedupVars, batch_posted, saved, image_urls,
                   tg_budget, attempt, success, sends, events, post_deadline,
                   inflight, reply, workerVars>>

NextRate == \E e \in {"A"} : RateTick(e) \/ RateCanPost(e) \/ RateRecordPost(e)

SpecRate == InitRate /\ [][NextRate]_vars

(***************************************************************************)
(* Properties                                                              *)
(***************************************************************************)
\* C1: no platform call (album, photo or text) is made for an item unless
\* db.save returned True earlier in the same publish call; when the save
\* returned False (conflict, error) or timed out, the publish call returns
\* False and has made no platform call.
C1_SaveBeforeDelivery ==
    \A e \in Execs :
        /\ (sends[e] # <<>> \/ pc[e] = "pub_post") => saved[e] = "ok"
        /\ (pc[e] = "pub_ret" /\ saved[e] \in {"conflict", "error", "timeout"})
              => (~success[e] /\ sends[e] = <<>>)
        /\ \A ev \in events :
              (ev[1] = "sent" /\ ev[2] = e) => <<"saved", e, ev[3]>> \in events

\* A publish call that returns after the store refused the item as a
\* conflict, in a run that delivered an earlier item after saving it.
C1_Witness ==
    /\ pc["A"] = "pub_ret"
    /\ saved["A"] = "conflict"
    /\ ~success["A"]
    /\ \E ev \in events : ev[1] = "sent" /\ ev[2] = "A"

\* C2: of two executions that run concurrently against one history store
\* and queued the same fingerprint, at most one gets True from db.save for
\* it and at most one makes a platform call for it.
C2_OneExecutionDelivers ==
    \A h \in {ev[3] : ev \in events} :
        /\ Cardinality({e \in Execs : <<"saved", e, h>> \in events}) <= 1
        /\ Cardinality({e \in Execs : <<"sent", e, h>> \in events}) <= 1

\* One execution made a platform call for the fingerprint and the other
\* one's publish call returned on the store's conflict.
C2_Witness ==
    \E e1, e2 \in Execs :
        /\ e1 # e2
        /\ publish_queue[e1][1].content_hash = publish_queue[e2][1].content_hash
        /\ <<"sent", e1, publish_queue[e1][1].content_hash>> \in events
        /\ pc[e2] = "pub_ret" /\ saved[e2] = "conflict"

\* C3: when every awaited operation takes at most the timeout it is wrapped
\* in, the summary is returned at most GLOBAL_DEADLINE_SEC + 1 seconds after
\* pipeline entry.
C3_WithinDeadline ==
    \A e \in Execs :
        summary[e] # NoSummary => elapsed[e] <= GLOBAL_DEADLINE_SEC + 1

\* C4: a run that has its configuration ends by returning the summary,
\* whichever fetches, store calls, image collections and post calls fail or
\* time out.
C4_Terminates ==
    (pc["A"] = "entry" /\ configured["A"])
        ~> (pc["A"] = "done" /\ summary["A"].status = "success")

\* A run that returned its summary although the history load timed out, a
\* publish call failed and a post call timed out.
C4_Witness ==
    /\ pc["A"] = "done"
    /\ summary["A"].status = "success"
    /\ summary["A"].db_timeout
    /\ summary["A"].errors > 0
    /\ summary["A"].post_retries > 0

\* The outer deadline of the fetch phase fired: main left the phase while a
\* worker was still running.
FetchTimedOut(e) == pc[e] # "fetch" /\ \E s \in SourceIds : wpc[s] \notin {"idle", "done"}

\* C5: when the outer deadline of the fetch phase fires, the entries of the
\* sources that had already returned are in the list the later phases use.
C5_PartialResultsUsed ==
    \A e \in {"A"} :
        FetchTimedOut(e) =>
            \A s \in SourceIds :
                (wpc[s] = "done" /\ wres[s].kind = "list") =>
                    \A i \in 1..Len(wres[s].entries) :
                        wres[s].entries[i] \in Range(all_entries[e])

\* The sources whose task gave None.
FailedSources == {s \in SourceIds : wres[s].kind = "none"}

RECURSIVE TotalEntries(_)
TotalEntries(S) ==
    IF S = {} THEN 0
    ELSE LET s == CHOOSE x \in S : TRUE
         IN  Len(wres[s].entries) + TotalEntries(S \ {s})

\* The gather returns before the outer deadline: every task is done and main
\* leaves the fetch phase with the results of the tasks taken.
GatherReturns ==
    /\ pc["A"] = "fetch" /\ pc'["A"] # "fetch"
    /\ \A s \in SourceIds : wpc[s] = "done" /\ wpc'[s] = "idle"

\* C6: when every task ends before the outer deadline, a source that failed
\* adds one to feeds_fail and nothing to the result, the entries of all
\* other sources are in the result, and feeds_ok + feeds_fail is the number
\* of sources.
C6_GatherAccounting ==
    [][ GatherReturns
        => /\ stats'["A"].feeds_fail = stats["A"].feeds_fail + Cardinality(FailedSources)
           /\ stats'["A"].feeds_ok + stats'["A"].feeds_fail = NumSources
           /\ \A s \in SourceIds \ FailedSources :
                 \A i \in 1..Len(wres[s].entries) :
                     wres[s].entries[i] \in Range(all_entries'["A"])
           /\ Len(all_entries'["A"]) = TotalEntries(SourceIds \ FailedSources)
           /\ stats'["A"].entries_total = Len(all_entries'["A"]) ]_vars

\* The fetch completed with one source failed and the entries of another
\* in the result.
C6_Witness ==
    /\ pc["A"] = "dbload"
    /\ stats["A"].feeds_fail = 1
    /\ stats["A"].feeds_ok = NumSources - 1
    /\ all_entries["A"] # <<>>

Transient == {"http5xx", "conn", "timeout"}

\* The positions of the entries of a feed that have a title and a link.
ValidPositions(s) ==
    {i \in 1..Len(feeds[s]) : feeds[s][i].title # <<>> /\ feeds[s][i].link # ""}

\* C7: a source is attempted at most FEED_MAX_RETRIES times; when k
\* transient failures are followed by a 200, the retrieval returns the valid
\* entries of the feed and has counted k retries; when every attempt fails
\* transiently, it reports failure after FEED_MAX_RETRIES attempts and has
\* counted FEED_MAX_RETRIES - 1 retries.
C7_RetryAccounting ==
    \A s \in SourceIds :
        /\ wattempt[s] + 1 <= FEED_MAX_RETRIES
        /\ (wpc[s] = "done" /\ wres[s].last = "ok200")
              => /\ wres[s].kind = "list"
                 /\ Len(wres[s].entries) = Cardinality(ValidPositions(s))
                 /\ \A i \in ValidPositions(s) :
                       \E j \in 1..Len(wres[s].entries) :
                           /\ wres[s].entries[j].title = feeds[s][i].title
                           /\ wres[s].entries[j].link = feeds[s][i].link
                 /\ wretries[s] = wattempt[s]
        /\ (wpc[s] = "done" /\ wres[s].last \in Transient)
              => /\ wres[s].kind = "none"
                 /\ wattempt[s] + 1 = FEED_MAX_RETRIES
                 /\ wretries[s] = FEED_MAX_RETRIES - 1

\* Two transient failures, then a 200 whose feed has one valid entry.
C7_Witness ==
    \E s \in SourceIds :
        /\ wpc[s] = "done" /\ wres[s].last = "ok200"
        /\ wattempt[s] = 2 /\ wretries[s] = 2
        /\ Len(feeds[s]) = 2 /\ Len(wres[s].entries) = 1

\* C8: a 404, or a malformed feed without entries, ends the retrieval of the
\* source at once with an empty list, on whichever attempt: no further
\* attempt, no back-off sleep, no increment of the retry count.
C8_DefinitiveEmpty ==
    [][ \A s \in SourceIds :
          (wpc[s] = "request" /\ wres'[s] # wres[s] /\ wres'[s].last \in {"http404", "bozo"})
          => /\ wpc'[s] = "done"
             /\ wres'[s].kind = "list" /\ wres'[s].entries = <<>>
             /\ wattempt'[s] = wattempt[s]
             /\ wretries'[s] = wretries[s]
             /\ wsleeps'[s] = wsleeps[s]
             /\ stats'["A"].feeds_retry = stats["A"].feeds_retry ]_vars

\* A 404 on the second attempt: the retrieval is over with an empty list and
\* the one retry counted before.
C8_Witness ==
    \E s \in SourceIds :
        /\ wpc[s] = "done" /\ wres[s].last = "http404"
        /\ wres[s].kind = "list" /\ wres[s].entries = <<>>
        /\ wattempt[s] = 1 /\ wretries[s] = 1 /\ Len(wsleeps[s]) = 1

\* The entry the loop of phase 3 evaluates next.
Candidate == all_entries["A"][idx["A"]]

\* The loop of phase 3 evaluates an entry whose fingerprint is the one of an
\* article admitted earlier in this run.
EvaluatesAdmittedFingerprint ==
    /\ pc["A"] = "phase3"
    /\ idx["A"] <= Len(all_entries["A"])
    /\ idx'["A"] = idx["A"] + 1
    /\ \E i \in 1..Len(publish_queue["A"]) :
          publish_queue["A"][i].content_hash = _make_hash(Candidate.title)

NoSharedFingerprint ==
    \A e \in Execs : \A i, j \in 1..Len(publish_queue[e]) :
        i # j => publish_queue[e][i].content_hash # publish_queue[e][j].content_hash

\* C9 as stated: once an article is admitted, every later candidate with the
\* same fingerprint is skipped and counted in skip_dupe, and no two queue
\* items have the same fingerprint.
C9_SameFingerprintCounted ==
    /\ []NoSharedFingerprint
    /\ [][ EvaluatesAdmittedFingerprint
           => /\ publish_queue'["A"] = publish_queue["A"]
              /\ stats'["A"].skip_dupe = stats["A"].skip_dupe + 1 ]_vars

TooOld(entry) == entry.pub_date # NoDate /\ entry.pub_date < NowHour - HOURS_THRESHOLD

\* C9, amended: once an article is admitted, a later candidate with the same
\* fingerprint is never queued; it is counted in skip_time when it is older
\* than the time window, else in skip_topic when its tier is LOW, else in
\* skip_dupe; no two queue items have the same fingerprint.
C9_SameFingerprintSkipped ==
    /\ []NoSharedFingerprint
    /\ [][ EvaluatesAdmittedFingerprint
           => /\ publish_queue'["A"] = publish_queue["A"]
              /\ IF TooOld(Candidate)
                 THEN stats'["A"] = [stats["A"] EXCEPT !.skip_time = @ + 1]
                 ELSE IF Boosted("A", Candidate).tier = "LOW"
                 THEN stats'["A"] = [stats["A"] EXCEPT !.skip_topic = @ + 1,
                                                        !.queued_low = @ + 1]
                 ELSE stats'["A"] = [stats["A"] EXCEPT !.skip_dupe = @ + 1] ]_vars

\* Three entries of one fingerprint were evaluated, with no history loaded:
\* the first was queued, one was counted as a duplicate and one as off topic.
C9_Witness ==
    /\ pc["A"] = "phase4"
    /\ known_hashes["A"] = {} /\ known_links["A"] = {}
    /\ Len(all_entries["A"]) = 3
    /\ \A i \in 1..3 : _make_hash(all_entries["A"][i].title) = _make_hash(FeedItems[1].title)
    /\ Len(publish_queue["A"]) = 1
    /\ stats["A"].skip_dupe = 1
    /\ stats["A"].skip_topic = 1

\* Two titles are fuzzy duplicates: both have two tokens or more, and the
\* token sets overlap by 75% of the smaller one or by 55% of their union.
FuzzyPair(t1, t2) ==
    LET a == Range(_normalize_text(t1))
        b == Range(_normalize_text(t2))
        inter == Cardinality(a \cap b)
    IN  /\ Cardinality(a) >= 2 /\ Cardinality(b) >= 2
        /\ inter > 0
        /\ \/ 4 * inter >= 3 * Min(Cardinality(a), Cardinality(b))
           \/ 100 * inter >= FUZZY_THRESHOLD_PCT * Cardinality(a \cup b)

\* C10: every queued article is in the fuzzy record list by the time the
\* next candidate is evaluated, and no two items of the publish queue are
\* fuzzy duplicates of each other.
C10_NoFuzzyPairQueued ==
    \A e \in Execs :
        /\ \A i \in 1..Len(publish_queue[e]) :
              \E k \in 1..Len(fuzzy_records[e]) :
                  fuzzy_records[e][k].title = publish_queue[e][i].title
        /\ \A i, j \in 1..Len(publish_queue[e]) :
              i # j => ~FuzzyPair(publish_queue[e][i].title, publish_queue[e][j].title)

\* Two entries with different fingerprints whose titles are fuzzy duplicates
\* were evaluated with no history loaded: only the first is in the queue.
C10_Witness ==
    /\ pc["A"] = "phase4"
    /\ fuzzy_records["A"] # <<>> /\ known_hashes["A"] = {}
    /\ Len(all_entries["A"]) = 2
    /\ FuzzyPair(all_entries["A"][1].title, all_entries["A"][2].title)
    /\ _make_hash(all_entries["A"][1].title) # _make_hash(all_entries["A"][2].title)
    /\ publish_queue["A"] = <<Enriched("A", all_entries["A"][1])>>
    /\ stats["A"].skip_dupe = 1

\* C11: within a run, once an article has been admitted to the publish
\* queue, a later candidate with the same link is rejected as a duplicate:
\* no two items of the publish queue have the same link.
C11_NoSharedLink ==
    \A e \in Execs : \A i, j \in 1..Len(publish_queue[e]) :
        i # j => publish_queue[e][i].link # publish_queue[e][j].link

\* The token set of a title after normalization, stopword removal and
\* removal of the tokens shorter than 2 characters.
TokenSet(title) == Range(_normalize_text(title))

\* C12: two titles whose token sets are equal, whatever the order and the
\* number of repetitions of a token, have the same fingerprint, and titles
\* whose token sets differ have different fingerprints.
C12_FingerprintOfTokenSet ==
    (call.fn = "_make_hash" /\ ret.done) =>
        (ret.h1 = ret.h2 <=> TokenSet(call.t1) = TokenSet(call.t2))

\* C13: fuzzy-duplicate detection is symmetric: testing A against the single
\* stored record of B gives the same result as testing B against the single
\* stored record of A.
C13_FuzzySymmetric ==
    (call.fn = "fuzzy_both_ways" /\ ret.done) => (ret.ab = ret.ba)

\* Two titles of 5 and 7 tokens sharing 4 were found duplicates both ways.
C13_Witness ==
    /\ call.fn = "fuzzy_both_ways" /\ ret.done
    /\ Cardinality(TokenSet(call.a)) = 5
    /\ Cardinality(TokenSet(call.b)) = 7
    /\ Cardinality(TokenSet(call.a) \cap TokenSet(call.b)) = 4
    /\ ret.ab /\ ret.ba

\* The criterion of the claim for a candidate's token set C and a stored
\* record's token set S.
Flagged(C, S) ==
    LET inter == Cardinality(C \cap S)
    IN  /\ Cardinality(C) >= 2
        /\ Cardinality(S) >= 2
        /\ \/ 4 * inter >= 3 * Min(Cardinality(C), Cardinality(S))
           \/ 100 * inter >= FUZZY_THRESHOLD_PCT * Cardinality(C \cup S)

\* C14: a candidate title is a fuzzy duplicate exactly when some stored
\* record's token set S and the candidate's token set C both have at least 2
\* tokens and the overlap is at least 0.75 or the Jaccard ratio at least
\* FUZZY_THRESHOLD; titles sharing 4 tokens where the smaller set has 5 are
\* flagged whatever the size of the larger set; a title of fewer than 2
\* tokens is never flagged.
C14_FuzzyCriterion ==
    (call.fn = "_is_fuzzy_duplicate" /\ ret.done) =>
        LET C == TokenSet(call.title)
            S(i) == Range(call.records[i].title_norm)
        IN  /\ ret.value <=> \E i \in 1..Len(call.records) : Flagged(C, S(i))
            /\ (\E i \in 1..Len(call.records) :
                   /\ Cardinality(C \cap S(i)) = 4
                   /\ Min(Cardinality(C), Cardinality(S(i))) = 5) => ret.value
            /\ Cardinality(C) < 2 => ~ret.value

\* A title of 5 tokens was flagged against the second of two records, one of
\* 7 tokens sharing 4 with it (Jaccard 4/8), the first record sharing nothing.
C14_Witness ==
    /\ call.fn = "_is_fuzzy_duplicate" /\ ret.done /\ ret.value
    /\ Len(call.records) = 2
    /\ Cardinality(TokenSet(call.title)) = 5
    /\ TokenSet(call.title) \cap Range(call.records[1].title_norm) = {}
    /\ Cardinality(Range(call.records[2].title_norm)) = 7
    /\ Cardinality(TokenSet(call.title) \cap Range(call.records[2].title_norm)) = 4

\* The tier the claim gives a final score.
TierOfScore(score) ==
    CASE score >= SCORE_HIGH -> "HIGH"
      [] SCORE_MEDIUM <= score /\ score < SCORE_HIGH -> "MEDIUM"
      [] score < SCORE_MEDIUM -> "LOW"

\* The loop of phase 3 scores its current entry (the entry passed the time
\* filter).
ScoresCandidate ==
    /\ pc["A"] = "phase3"
    /\ idx["A"] <= Len(all_entries["A"])
    /\ idx'["A"] = idx["A"] + 1
    /\ ~TooOld(Candidate)

QueuedTiersAgree ==
    \A i \in 1..Len(publish_queue["A"]) :
        /\ publish_queue["A"][i].tier = TierOfScore(publish_queue["A"][i].score)
        /\ publish_queue["A"][i].tier # "LOW"

\* C15: with SCORE_MEDIUM <= SCORE_HIGH, the tier of a scored article is the
\* function of its final score (after the source-trust bonus) that gives
\* HIGH from SCORE_HIGH, MEDIUM from SCORE_MEDIUM and LOW below; every queued
\* item's stored tier agrees with its stored score; every LOW article is
\* counted in skip_topic and not queued.
C15_TierFollowsScore ==
    /\ [](SCORE_MEDIUM <= SCORE_HIGH => QueuedTiersAgree)
    /\ [][ (SCORE_MEDIUM <= SCORE_HIGH /\ ScoresCandidate) =>
             /\ Boosted("A", Candidate).tier = TierOfScore(Boosted("A", Candidate).score)
             /\ Boosted("A", Candidate).tier = "LOW" =>
                   /\ stats'["A"].skip_topic = stats["A"].skip_topic + 1
                   /\ publish_queue'["A"] = publish_queue["A"] ]_vars

\* Under SCORE_HIGH = 5 an article of a trusted source scoring 4 was queued
\* as HIGH with score 5, and an article scoring LOW was skipped.
C15_Witness ==
    /\ pc["A"] = "phase4"
    /\ SCORE_HIGH = 5
    /\ stats["A"].skip_topic = 1
    /\ \E i \in 1..Len(publish_queue["A"]) :
          /\ publish_queue["A"][i].score = 5
          /\ publish_queue["A"][i].tier = "HIGH"
          /\ _score_article(publish_queue["A"][i].title,
                            publish_queue["A"][i].desc).score = 4

\* The normalized title and description of an entry match a rejection keyword.
MatchesRejection(entry) ==
    Rejected(_pre_normalize(entry.title) \o _pre_normalize(entry.desc))

\* C16: an article whose normalized title and description match a rejection
\* keyword gets score -1, tier LOW and empty entity and topic lists, and is
\* never admitted to the publish queue, whatever its other keyword matches,
\* the source-trust bonus and the configured thresholds.
C16_RejectedNeverQueued ==
    \A i \in 1..Len(all_entries["A"]) :
        MatchesRejection(all_entries["A"][i]) =>
            /\ _score_article(all_entries["A"][i].title, all_entries["A"][i].desc)
                  = [score |-> -1, tier |-> "LOW", candidates |-> <<>>, topics |-> <<>>]
            /\ \A j \in 1..Len(publish_queue["A"]) :
                  publish_queue["A"][j].title # all_entries["A"][i].title

\* The posts recorded on the limiter less than RATE_WINDOW_SEC ago.
InWindow == {i \in 1..Len(call.recorded) : elapsed["A"] - call.recorded[i] < RATE_WINDOW_SEC}

\* can_post() returns.
CanPostReturns == call.fn = "_RateLimiter" /\ ret'.done /\ elapsed' = elapsed

\* C17: with cap N, can_post() returns false while N recorded posts lie in
\* the trailing 60 seconds; a post recorded 60 seconds ago or more no
\* longer counts, so 60 seconds after the last of them can_post() returns
\* true again; with fewer than N posts in the window it returns true.
C17_RateWindow ==
    [][ CanPostReturns =>
          /\ Cardinality(InWindow) >= RATE_LIMIT_PER_MINUTE => ~ret'.value
          /\ (\A i \in 1..Len(call.recorded) :
                 elapsed["A"] - call.recorded[i] >= RATE_WINDOW_SEC) => ret'.value
          /\ Cardinality(InWindow) < RATE_LIMIT_PER_MINUTE => ret'.value ]_vars

\* As many posts as the cap were recorded, and can_post() asked 60 seconds
\* after the last of them dropped them and returned true.
C17_Witness ==
    /\ call.fn = "_RateLimiter"
    /\ Len(call.recorded) = RATE_LIMIT_PER_MINUTE
    /\ elapsed["A"] = call.recorded[Len(call.recorded)] + RATE_WINDOW_SEC
    /\ ret.done /\ ret.value
    /\ timestamps["A"] = <<>>

\* The loop of phase 4 is at its head with an item to publish.
AtLoopHead == pc["A"] = "phase4" /\ idx["A"] <= Len(publish_queue["A"])

\* The limiter holds as many posts of the last RATE_WINDOW_SEC as its cap.
RateRefuses ==
    Cardinality({i \in 1..Len(timestamps["A"]) :
                    elapsed["A"] - timestamps["A"][i] < RATE_WINDOW_SEC})
        >= RATE_LIMIT_PER_MINUTE

\* The items of the queue from the current one on.
ItemsLeft == Len(publish_queue["A"]) - idx["A"] + 1

\* The next step ends the run without a save or a delivery, the items left
\* added to overflow.
StopsWithOverflow ==
    /\ pc'["A"] = "done"
    /\ summary'["A"].overflow = stats["A"].overflow + ItemsLeft
    /\ stats'["A"].overflow = stats["A"].overflow + ItemsLeft
    /\ stats'["A"].posted = stats["A"].posted
    /\ stats'["A"].errors = stats["A"].errors
    /\ store' = store /\ events' = events /\ sends' = sends
    /\ inflight' = inflight

\* C18: the number of posted items never exceeds PUBLISH_BATCH_SIZE; once
\* the count of successful publishes reaches the batch limit, or the rate
\* limiter refuses, no save and no delivery is started any more (a save
\* request given up earlier may still be served), and the current and all
\* following queue items are added to overflow.
C18_BatchAndRateLimit ==
    /\ [](stats["A"].posted <= PUBLISH_BATCH_SIZE /\ stats["A"].posted = batch_posted["A"])
    /\ [][ pc["A"] = "done" =>
              /\ pc'["A"] = "done" /\ idx' = idx /\ stats' = stats
              /\ events' = events /\ sends' = sends
              /\ inflight' \subseteq inflight ]_vars
    /\ [][ (AtLoopHead /\ pc'["A"] # "phase4"
                /\ (stats["A"].posted >= PUBLISH_BATCH_SIZE \/ RateRefuses))
             => StopsWithOverflow ]_vars

\* The run ended on the batch limit: as many items posted as the batch
\* holds, the last item of the queue in overflow, nothing saved for it.
C18_Witness ==
    /\ pc["A"] = "done"
    /\ Len(publish_queue["A"]) = MaxQueue
    /\ summary["A"].posted = PUBLISH_BATCH_SIZE
    /\ summary["A"].overflow = MaxQueue - PUBLISH_BATCH_SIZE
    /\ summary["A"].errors = 0
    /\ elapsed["A"] < GLOBAL_DEADLINE_SEC - 8
    /\ \A d \in store : d.id # DocId(publish_queue["A"][MaxQueue].content_hash)

\* C19: when the publish phase ends, every item of the publish queue has
\* been counted exactly once, as posted, as an error or as overflow:
\* posted + errors + overflow = queued_high + queued_medium = length of the
\* queue; when the loop stops on low budget, batch limit or rate limit,
\* overflow grows by exactly the number of items not yet attempted, the
\* current one included.
C19_EveryItemTallied ==
    /\ [](pc["A"] = "done" =>
            /\ summary["A"].posted + summary["A"].errors + summary["A"].overflow
                  = Len(publish_queue["A"])
            /\ summary["A"].queued_high + summary["A"].queued_medium
                  = Len(publish_queue["A"]))
    /\ [](pc["A"] \in {"phase4", "pub_save", "pub_images", "pub_post", "pub_ret", "sleep"} =>
            /\ stats["A"].overflow = 0
            /\ stats["A"].posted + stats["A"].errors
                  = idx["A"] - 1)
    /\ [][ (AtLoopHead /\ pc'["A"] = "done")
             => stats'["A"].overflow = stats["A"].overflow + ItemsLeft ]_vars

\* The run ended on low budget with one item posted, one failed and one in
\* overflow.
C19_Witness ==
    /\ pc["A"] = "done"
    /\ summary["A"].posted = 1
    /\ summary["A"].errors = 1
    /\ summary["A"].overflow = 1
    /\ batch_posted["A"] < PUBLISH_BATCH_SIZE
    /\ elapsed["A"] > GLOBAL_DEADLINE_SEC - 8

\* No network operation was started: no worker ran, no history-store call
\* and no platform call was made, no time was spent waiting.
NoNetworkActivity ==
    /\ \A s \in SourceIds : wpc[s] = "idle" /\ wattempt[s] = 0 /\ wres[s] = NoResult
    /\ events = {} /\ sends["A"] = <<>> /\ saved["A"] = "none"
    /\ known_links["A"] = {} /\ known_hashes["A"] = {} /\ fuzzy_records["A"] = <<>>
    /\ ~stats["A"].db_timeout
    /\ elapsed["A"] = 0

AllCountsZero ==
    \A k \in {"posted", "feeds_ok", "feeds_failed", "feeds_retries", "entries_total",
              "queued_high", "queued_medium", "queued_low", "skipped_time",
              "skipped_topic", "skipped_dupe", "post_retries", "post_fallbacks",
              "errors", "overflow"} : summary["A"][k] = 0

\* C20: if a required configuration value is missing, the run returns a
\* summary with status "error" and all counts zero before any network
\* operation is started; missing configuration is the only condition under
\* which the returned status is "error".
C20_MissingConfigAborts ==
    /\ [](~configured["A"] => NoNetworkActivity)
    /\ []((~configured["A"] /\ pc["A"] = "done") =>
            /\ summary["A"].status = "error"
            /\ AllCountsZero
            /\ ~ENABLED Next)
    /\ [](summary["A"].status = "error" => ~configured["A"])
    /\ [][(~configured["A"] /\ pc["A"] = "entry") =>
            (pc'["A"] = "done" /\ store' = store)]_vars

\* A run with a missing configuration value returned the error summary.
C20_Witness ==
    /\ ~configured["A"]
    /\ pc["A"] = "done"
    /\ summary["A"].status = "error"
    /\ store # {}

\* Phase 2 runs: main goes from the history load to the scoring loop.
LoadStep == pc["A"] = "dbload" /\ pc'["A"] = "phase3"

\* The load degraded: the store holds documents and none was loaded.
LoadDegraded == store # {} /\ known_hashes'["A"] = {}

\* C21: when the history-store load times out, fails or is skipped the run
\* goes on to scoring with an empty persisted dedup state and db_timeout is
\* true; when the load succeeds db_timeout is false: the flag is true exactly
\* when the load degraded.
C21_FlagIffLoadDegraded ==
    [][ (LoadStep /\ store # {}) =>
           /\ stats'["A"].db_timeout <=> LoadDegraded
           /\ LoadDegraded =>
                 /\ known_links'["A"] = {}
                 /\ fuzzy_records'["A"] = <<>> ]_vars

\* The history store holds a document with the fingerprint of the item.
Persisted(item) == \E d \in store : d.content_hash = item.content_hash

\* The publisher returned False for the current item.
NotPosted == pc["A"] = "pub_ret" /\ ~success["A"]

\* C22 as stated: an item the publisher attempted and did not post has no
\* document of this run in the history store.
C22_UnpostedNeverPersisted == NotPosted => ~Persisted(CurrentItem("A"))

\* C22: an item the publisher attempted and did not post has no document in
\* the history store when the publisher gave up before the save; when the
\* save succeeded and the delivery failed, or the save was refused on a key
\* conflict, its document is in the store; when the save failed or timed out
\* the document is there or not, as the store served the request or not.
C22_UnpostedPersistedOnlyIfSaved ==
    NotPosted =>
        /\ saved["A"] = "none" => ~Persisted(CurrentItem("A"))
        /\ saved["A"] \in {"ok", "conflict"} => Persisted(CurrentItem("A"))

\* The save of an item failed, the publisher returned False and the store
\* has no document of the item.
C22_Witness ==
    /\ NotPosted
    /\ saved["A"] = "error"
    /\ ~Persisted(CurrentItem("A"))

\* The position in the candidate list of the entry a queue item was built
\* from.
PosOf(item, entries) ==
    CHOOSE i \in 1..Len(entries) :
        /\ entries[i].title = item.title /\ entries[i].link = item.link
        /\ \A j \in 1..(i - 1) :
              ~(entries[j].title = item.title /\ entries[j].link = item.link)

\* The candidate list is newest first.
NewestFirst(entries) ==
    \A i, j \in 1..Len(entries) : i < j => PubKey(entries[i]) >= PubKey(entries[j])

\* Queue q is in triage order: by non-increasing score, and among equal
\* scores in the order of the candidate list.
InTriageOrder(q, entries) ==
    \A i, j \in 1..Len(q) :
        i < j =>
            \/ q[i].score > q[j].score
            \/ /\ q[i].score = q[j].score
               /\ PosOf(q[i], entries) < PosOf(q[j], entries)

InPhase4 == pc["A"] \in {"phase4", "pub_save", "pub_images", "pub_post", "pub_ret", "sleep"}

\* The publisher is called for the item at the loop position.
AttemptStarts ==
    /\ pc["A"] = "phase4"
    /\ pc'["A"] \in {"pub_save", "pub_ret"}

\* C23: publish attempts happen in triage order: the queue of phase 4 is in
\* non-increasing order of final score, equal scores in the order of the
\* newest-first candidate list; the loop goes through it from the first item
\* on, one item after the other, so no item is attempted before an item of
\* strictly higher score.
C23_AttemptsInTriageOrder ==
    /\ [](InPhase4 =>
             /\ NewestFirst(all_entries["A"])
             /\ InTriageOrder(publish_queue["A"], all_entries["A"]))
    /\ [][ InPhase4 =>
             /\ publish_queue'["A"] = publish_queue["A"]
             /\ idx'["A"] \in {idx["A"], idx["A"] + 1}
             /\ AttemptStarts =>
                   \A j \in 1..Len(publish_queue["A"]) :
                       publish_queue["A"][j].score
                           > publish_queue["A"][idx["A"]].score => j < idx["A"] ]_vars

\* Three articles were attempted: the one without a date and the highest
\* score first, then the two of equal score, the newer before the older,
\* although the candidate list had them in the order newer, older, undated.
C23_Witness ==
    /\ pc["A"] = "pub_ret"
    /\ idx["A"] = 3
    /\ Len(publish_queue["A"]) = 3
    /\ publish_queue["A"][1].pub_date = NoDate
    /\ publish_queue["A"][1].score > publish_queue["A"][2].score
    /\ publish_queue["A"][2].score = publish_queue["A"][3].score
    /\ publish_queue["A"][2].pub_date > publish_queue["A"][3].pub_date
    /\ all_entries["A"][3].pub_date = NoDate

\* The awaited operation of the publisher that is in flight, and the reserve
\* its timeout leaves.
OperationInFlight == pc["A"] \in {"pub_save", "pub_images", "pub_post"}
ReserveOf(p) ==
    CASE p = "pub_save" -> 6
      [] p = "pub_images" -> 5
      [] p = "pub_post" -> 2

\* C24: every network operation the publisher starts for an item (history
\* save, image collection, each delivery attempt, the second one included)
\* runs under a timeout derived from the budget remaining when it starts: it
\* is over at the latest when the time remaining at its start, less its
\* reserve (6 s save, 5 s images, 2 s delivery), has passed.
C24_TimeoutWithinBudget ==
    [][ (OperationInFlight /\ elapsed'["A"] # elapsed["A"]) =>
           elapsed'["A"] - elapsed["A"] <= _remaining("A") - ReserveOf(pc["A"]) ]_vars

\* A post call returned.
PostCallDone == call.fn = "_post_to_telegram" /\ ret.done

\* The platform answered a send of the call with too-many-requests.
TooManyRequests ==
    \E i \in 1..Len(ret.value.tried) : call.out[ret.value.tried[i]] = "retry_after"

\* C25: a too-many-requests signal of a delivery call always reaches the
\* publisher's handling of it (sleep min(w, 3) s and retry when the remaining
\* budget exceeds min(w, 3) + 3, else abandon) and is never treated as an
\* ordinary delivery failure: the post call raises it to the publisher.
C25_RetryAfterReachesPublisher ==
    (PostCallDone /\ TooManyRequests) => ret.value.raised = "RetryAfter"

\* The forms a post call sent are in the fixed order album, photo, text,
\* each at most once.
FormRank(f) == CASE f = "album" -> 1 [] f = "photo" -> 2 [] f = "text" -> 3
InFixedOrder(tried) ==
    \A i, j \in 1..Len(tried) : i < j => FormRank(tried[i]) < FormRank(tried[j])

\* C26: within one post call the forms are tried in the order album (only
\* with 2 or more images), single image (only with at least 1 image), text;
\* a later form is tried only after every earlier form tried has failed, no
\* form is tried after one succeeded, and the call returns true iff one form
\* succeeded; on a retry (attempt > 0) the album form is never tried.
C26_DegradeChain ==
    PostCallDone =>
        LET tried == ret.value.tried
        IN  /\ InFixedOrder(tried)
            /\ tried # <<>>
            /\ \A i \in 1..Len(tried) :
                  /\ tried[i] = "album" => call.n >= 2 /\ call.att = 0
                  /\ tried[i] = "photo" => call.n >= 1
                  /\ i < Len(tried) => call.out[tried[i]] # "ok"
            /\ ret.value.result <=> call.out[tried[Len(tried)]] = "ok"
            /\ ret.value.raised = "none"

\* With two images on the first pass the album and the photo failed and
\* the text form succeeded.
C26_Witness ==
    /\ PostCallDone
    /\ call.n = 2 /\ call.att = 0
    /\ ret.value.tried = <<"album", "photo", "text">>
    /\ ret.value.result

\* The loop of phase 4 books the outcome of a publish call.
PublishReturns == pc["A"] = "pub_ret" /\ pc'["A"] # "pub_ret"

\* C27: in the publish loop the rate limiter is queried immediately before
\* every publish attempt and the attempt starts only when can_post() gave
\* true; record_post() is called exactly once after each successful publish
\* and never after a failed one; a failed publish leaves the rate window,
\* the posted count and the batch count unchanged.
C27_LimiterAroundPublish ==
    [][ /\ AttemptStarts =>
              /\ can_post(timestamps["A"], elapsed["A"])
              /\ timestamps'["A"] = Pruned(timestamps["A"], elapsed["A"])
        /\ (PublishReturns /\ success["A"]) =>
              /\ timestamps'["A"] = Append(timestamps["A"], elapsed["A"])
              /\ stats'["A"].posted = stats["A"].posted + 1
              /\ batch_posted'["A"] = batch_posted["A"] + 1
        /\ (PublishReturns /\ ~success["A"]) =>
              /\ timestamps'["A"] = timestamps["A"]
              /\ stats'["A"].posted = stats["A"].posted
              /\ batch_posted'["A"] = batch_posted["A"]
        /\ Len(timestamps'["A"]) > Len(timestamps["A"]) =>
              PublishReturns /\ success["A"]
        /\ pc["A"] \in {"pub_save", "pub_images", "pub_post"} =>
              timestamps'["A"] = timestamps["A"] ]_vars

\* One publish failed and the next succeeded: one error, one post, one
\* timestamp in the rate window.
C27_Witness ==
    /\ pc["A"] \in {"phase4", "sleep"}
    /\ idx["A"] = 3
    /\ stats["A"].errors = 1
    /\ stats["A"].posted = 1
    /\ batch_posted["A"] = 1
    /\ Len(timestamps["A"]) = 1

\* The story of the two runs and its fingerprint.
Story == RaceQueue("A")[1]

\* Run A is over: its save of the story succeeded and it delivered nothing.
SavedUndelivered ==
    /\ pc["A"] = "done"
    /\ <<"saved", "A", Story.content_hash>> \in events
    /\ stats["A"].posted = 0

\* C28: when the history-store save of an item succeeded and every delivery
\* attempt that followed failed or timed out, the record stays in the store
\* and a later run rejects the same story as a duplicate, by the loaded
\* fingerprint or by the conflict of its save, and makes no delivery
\* attempt for it: the story is delivered by no run.
C28_SavedUndeliveredNeverDelivered ==
    SavedUndelivered =>
        /\ Persisted(Story)
        /\ stats["B"].posted = 0
        /\ ~success["B"]
        /\ pc["B"] \notin {"pub_images", "pub_post", "sleep"}
        /\ <<"saved", "B", Story.content_hash>> \notin events
        /\ <<"sent", "B", Story.content_hash>> \notin events
        /\ pc["B"] = "pub_ret" => saved["B"] \in {"conflict", "error", "timeout"}
        /\ pc["B"] = "done" =>
              \/ /\ stats["B"].skip_dupe = 1 /\ stats["B"].errors = 0
                 /\ Story.content_hash \in known_hashes["B"]
              \/ /\ stats["B"].skip_dupe = 0 /\ stats["B"].errors = 1
                 /\ known_hashes["B"] = {}

\* Run A saved the story and delivered nothing; the history load of run B
\* failed, B queued the story under another wording and link, its save was
\* refused as a conflict and B ended with one error and nothing posted.
C28_Witness ==
    /\ SavedUndelivered
    /\ stats["A"].errors = 1
    /\ pc["B"] = "done"
    /\ all_entries["B"][1].link # Story.link
    /\ known_hashes["B"] = {}
    /\ stats["B"].queued_high = 1
    /\ stats["B"].errors = 1
    /\ stats["B"].posted = 0

\* The scorer returned for an article that matches no rejection keyword.
Scored ==
    /\ call.fn = "_score_article" /\ ret.done
    /\ ~Rejected(_pre_normalize(call.title) \o _pre_normalize(call.desc))

\* What a keyword contributes: its title weight when it matches the title,
\* otherwise its description weight when it matches the description,
\* otherwise nothing.
Contribution(kw, title, desc) ==
    CASE Matches(kw[1], _pre_normalize(title)) -> kw[2]
      [] ~Matches(kw[1], _pre_normalize(title))
           /\ Matches(kw[1], _pre_normalize(desc)) -> kw[3]
      [] OTHER -> 0

\* The core and contextual keywords.
Keywords == Range(LAYER1_COMPILED) \cup Range(LAYER2_COMPILED)

RECURSIVE TotalContribution(_, _, _)
TotalContribution(kws, title, desc) ==
    IF kws = {} THEN 0
    ELSE LET kw == CHOOSE k \in kws : TRUE
         IN  Contribution(kw, title, desc) + TotalContribution(kws \ {kw}, title, desc)

\* C29: scoring is exclusive per keyword: each core or contextual keyword
\* contributes at most once, its title weight when it matches the title,
\* otherwise its description weight when it matches the description; the
\* score of an article without candidate and with fewer than two topics is
\* the sum of these contributions.
C29_ExclusivePerKeyword ==
    (Scored /\ ret.value.candidates = <<>> /\ Len(ret.value.topics) < 2) =>
        ret.value.score = TotalContribution(Keywords, call.title, call.desc)

\* A keyword in both title and description counted its title weight only,
\* next to a keyword of the description alone.
C29_Witness ==
    /\ Scored
    /\ call.title = <<"election">>
    /\ call.desc = <<"election", "monazereh">>
    /\ ret.value.score = 5

\* The points of the entities found: 2 for one named in the title, 1 for
\* one named in the description only.
RECURSIVE EntityPoints(_, _)
EntityPoints(names, title) ==
    IF names = <<>> THEN 0
    ELSE (IF Matches(<<Head(names)>>, _pre_normalize(title))
          THEN 2 ELSE 1)
         + EntityPoints(Tail(names), title)

\* The score of the returned article before the multi-signal bonuses.
BeforeBonuses ==
    TotalContribution(Keywords, call.title, call.desc)
    + EntityPoints(ret.value.candidates, call.title)

\* The bonuses the claim gives to an article of that score.
BonusesDue ==
    IF BeforeBonuses >= env.SCORE_MEDIUM
    THEN (IF ret.value.candidates # <<>> THEN 2 ELSE 0)
         + (IF Len(ret.value.topics) >= 2 THEN 1 ELSE 0)
    ELSE 0

\* C30: the multi-signal bonuses apply only to a score that already reaches
\* SCORE_MEDIUM: +2 when at least one entity was found, +1 when two or more
\* distinct topics were found; an article whose score before the bonuses is
\* below SCORE_MEDIUM gets no bonus and stays LOW, whatever entities and
\* topics it mentions (thresholds with SCORE_MEDIUM <= SCORE_HIGH).
C30_BonusesOnlyFromMedium ==
    Scored =>
        /\ ret.value.score = BeforeBonuses + BonusesDue
        /\ (BeforeBonuses < env.SCORE_MEDIUM /\ env.SCORE_MEDIUM <= env.SCORE_HIGH) =>
               /\ ret.value.score = BeforeBonuses
               /\ ret.value.tier = "LOW"

\* An article naming an entity and two topics scored 4, below a
\* SCORE_MEDIUM of 5, and stayed LOW without bonus.
C30_Witness ==
    /\ Scored
    /\ env.SCORE_MEDIUM = 5
    /\ ret.value.candidates # <<>>
    /\ Len(ret.value.topics) >= 2
    /\ ret.value.score = 4
    /\ ret.value.tier = "LOW"

\* C31: the back-off between attempts on one source is exponential: the sleep
\* after the k-th failed attempt is FEED_RETRY_BASE_SEC * 2^(k-1) (here in
\* milliseconds), each delay is twice the previous one, there is one sleep
\* before each further attempt and none after the last allowed attempt.
C31_ExponentialBackoff ==
    \A s \in SourceIds :
        /\ Len(wsleeps[s]) = wattempt[s]
        /\ Len(wsleeps[s]) <= FEED_MAX_RETRIES - 1
        /\ \A k \in 1..Len(wsleeps[s]) :
               /\ wsleeps[s][k] = FEED_RETRY_BASE_MS * 2^(k - 1)
               /\ k > 1 => wsleeps[s][k] = 2 * wsleeps[s][k - 1]
        /\ (wpc[s] = "done" /\ wres[s].kind = "none" /\ wres[s].last \in Transient)
              => Len(wsleeps[s]) = FEED_MAX_RETRIES - 1

\* A source failed on every allowed attempt: it slept 300 ms and 600 ms, and
\* not after the last attempt.
C31_Witness ==
    \E s \in SourceIds :
        /\ wpc[s] = "done" /\ wres[s].kind = "none" /\ wres[s].last \in Transient
        /\ wattempt[s] = FEED_MAX_RETRIES - 1
        /\ wsleeps[s] = <<FEED_RETRY_BASE_MS, 2 * FEED_RETRY_BASE_MS>>

\* The retries performed by the workers of the sources 1..n.
RECURSIVE RetriesPerformed(_)
RetriesPerformed(n) ==
    IF n = 0 THEN 0 ELSE wretries[n] + RetriesPerformed(n - 1)

\* C32: when every source worker has returned, the feeds_retry count equals
\* the total number of retries performed by all workers, under every
\* interleaving of the worker threads.
C32_RetryCountExact ==
    (pc["A"] = "fetch" /\ \A s \in SourceIds : wpc[s] = "done")
        => stats["A"].feeds_retry = RetriesPerformed(NumSources)

\* The entries counted in the buckets of phase 3 so far.
Bucketed ==
    stats["A"].skip_time + stats["A"].skip_topic + stats["A"].skip_dupe
    + stats["A"].queued_high + stats["A"].queued_medium

\* C33: each entry phase 3 has processed is counted in exactly one bucket;
\* when the loop has processed all fetched entries, entries_total =
\* skip_time + skip_topic + skip_dupe + queued_high + queued_medium, the
\* queue holds the queued_high + queued_medium articles, and queued_low =
\* skip_topic (LOW articles are counted but never queued).
C33_OneBucketPerEntry ==
    /\ pc["A"] = "phase3" =>
          /\ Bucketed = idx["A"] - 1
          /\ Len(publish_queue["A"]) = stats["A"].queued_high + stats["A"].queued_medium
    /\ (pc["A"] = "phase3" /\ idx["A"] > Len(all_entries["A"])) \/ pc["A"] = "phase4" =>
          /\ stats["A"].entries_total = Bucketed
          /\ Len(publish_queue["A"]) = stats["A"].queued_high + stats["A"].queued_medium
    /\ stats["A"].queued_low = stats["A"].skip_topic
    /\ \A i \in 1..Len(publish_queue["A"]) : publish_queue["A"][i].tier # "LOW"

\* Phase 3 is over with an entry outside the time window, a LOW article and
\* a queued article.
C33_Witness ==
    /\ pc["A"] = "phase4"
    /\ stats["A"].entries_total = 3
    /\ stats["A"].skip_time = 1
    /\ stats["A"].skip_topic = 1 /\ stats["A"].queued_low = 1
    /\ stats["A"].queued_high + stats["A"].queued_medium = 1

\* The send calls of the current publish call that returned success.
Succeeded == {i \in 1..Len(sends["A"]) : sends["A"][i].answer = "ok"}

\* The send calls made in the pass a of the delivery loop.
SendsOfAttempt(a) == {i \in 1..Len(sends["A"]) : sends["A"][i].attempt = a}

\* The send calls of one item are bounded, at most one of them succeeded,
\* and it was the last one, after which the publisher returned True.
BoundedSends ==
    /\ Cardinality(Succeeded) <= 1
    /\ \A i \in Succeeded :
          /\ i = Len(sends["A"])
          /\ pc["A"] = "pub_ret" /\ success["A"]
    /\ (pc["A"] = "pub_ret" /\ success["A"]) => Succeeded # {}
    /\ \A i \in 1..Len(sends["A"]) : sends["A"][i].attempt \in 0..(TG_POST_MAX_RETRIES - 1)
    /\ \A a \in 0..(TG_POST_MAX_RETRIES - 1) : Cardinality(SendsOfAttempt(a)) <= 3
    /\ Len(sends["A"]) <= 3 * TG_POST_MAX_RETRIES

\* The loop of phase 4 hands the item at the next position to the publisher,
\* with no send call made for it yet, and never goes back in the queue.
HandedOnce ==
    /\ idx'["A"] \in {idx["A"], idx["A"] + 1}
    /\ idx'["A"] = idx["A"] + 1 <=> (pc["A"] = "pub_ret" /\ pc'["A"] # "pub_ret")
    /\ (pc["A"] = "pub_ret" /\ pc'["A"] # "pub_ret")
          => pc'["A"] \in {"phase4", "sleep"} /\ sends'["A"] = <<>>
    /\ (pc["A"] \in {"phase4", "sleep"} /\ pc'["A"] \in {"pub_save", "pub_ret"})
          => pc["A"] = "phase4" /\ sends["A"] = <<>> /\ idx["A"] <= Len(publish_queue["A"])

\* C34: within one run each queued item is handed to the publisher at most
\* once and gets at most one successful platform send: the publisher returns
\* at the first send that succeeds, and the send calls for one item are at
\* most TG_POST_MAX_RETRIES whole-chain attempts of at most 3 sends each.
C34_OneHandoffOneSuccess ==
    []BoundedSends /\ [][HandedOnce]_vars

\* An item with two images went through both passes of the delivery loop:
\* album, photo and text failed, then the photo failed and the text succeeded.
C34_Witness ==
    /\ pc["A"] = "pub_ret" /\ success["A"]
    /\ Len(sends["A"]) = 5
    /\ Cardinality(SendsOfAttempt(0)) = 3
    /\ Cardinality(SendsOfAttempt(1)) = 2
    /\ Succeeded = {5}

\* The wait_for around the post call fired in this step: its last send was cut.
DeliveryTimedOut ==
    /\ pc["A"] = "pub_post"
    /\ elapsed'["A"] = post_deadline["A"]
    /\ Len(sends'["A"]) > Len(sends["A"])
    /\ sends'["A"][Len(sends'["A"])].answer = "cut"

\* A send of the post call was refused in this step.
EveryFormRefused ==
    /\ pc["A"] = "pub_post"
    /\ Len(sends'["A"]) > Len(sends["A"])
    /\ \A i \in (Len(sends["A"]) + 1)..Len(sends'["A"]) : sends'["A"][i].answer = "err"

\* C35: the post call catches every platform error of every form and returns
\* false instead of raising, so the publisher's error branch is never
\* entered: post_fallbacks stays 0 and post_retries grows only, by one, on a
\* delivery timeout; a post call refused on every form changes neither.
C35_ErrorBranchNeverEntered ==
    [][ /\ stats'["A"].post_fallbacks = 0
        /\ stats'["A"].post_retries # stats["A"].post_retries
              => /\ DeliveryTimedOut
                 /\ stats'["A"].post_retries = stats["A"].post_retries + 1
        /\ DeliveryTimedOut => stats'["A"].post_retries = stats["A"].post_retries + 1
        /\ EveryFormRefused => /\ stats'["A"].post_retries = stats["A"].post_retries
                               /\ stats'["A"].errors = stats["A"].errors ]_vars

\* An item with images was refused on every form of both passes: no retry
\* and no fallback is counted.
C35_Witness ==
    /\ pc["A"] = "pub_ret" /\ ~success["A"]
    /\ image_urls["A"] > 0
    /\ Len(sends["A"]) >= 3
    /\ \A i \in 1..Len(sends["A"]) : sends["A"][i].answer = "err"
    /\ \E i \in 1..Len(sends["A"]) : sends["A"][i].attempt = TG_POST_MAX_RETRIES - 1
    /\ stats["A"].post_retries = 0
    /\ stats["A"].post_fallbacks = 0

\* HIGH above MEDIUM above LOW.
TierRank(tier) == CASE tier = "HIGH" -> 2 [] tier = "MEDIUM" -> 1 [] OTHER -> 0

\* What the scoring engine gave for the entry the loop evaluates.
EngineResult == _score_article(Candidate.title, Candidate.desc)

\* The source of that entry has more than 10 loaded history records.
TrustedSource == source_reliability["A"][Candidate.source] > 10

\* C36: the source-trust bonus (+1 for a source with more than 10 loaded
\* history records) is applied only to a score that already reaches
\* SCORE_MEDIUM, and the tier is recomputed after it: an article that is LOW
\* without the bonus gets none and is skipped as LOW, the tier with the
\* bonus is never lower than the tier without it, and a queued article
\* stores the score with the bonus and the tier recomputed from it.
C36_TrustBonusOnlyFromMedium ==
    [][ ScoresCandidate =>
          LET engine == EngineResult
              boosted == Boosted("A", Candidate)
              without == IF engine.score >= SCORE_HIGH THEN "HIGH"
                         ELSE IF engine.score >= SCORE_MEDIUM THEN "MEDIUM"
                         ELSE engine.tier
              bonus == IF TrustedSource /\ engine.score >= SCORE_MEDIUM THEN 1 ELSE 0
          IN  /\ boosted.score = engine.score + bonus
              /\ engine.score < SCORE_MEDIUM => boosted = engine
              /\ TierRank(boosted.tier) >= TierRank(without)
              /\ without = "LOW" <=>
                    stats'["A"].skip_topic = stats["A"].skip_topic + 1
              /\ without = "LOW" => publish_queue'["A"] = publish_queue["A"]
              /\ Len(publish_queue'["A"]) > Len(publish_queue["A"]) =>
                    LET q == publish_queue'["A"][Len(publish_queue'["A"])]
                    IN  /\ q.score = engine.score + bonus
                        /\ q.tier = IF q.score >= SCORE_HIGH THEN "HIGH" ELSE "MEDIUM" ]_vars

\* An article of a trusted source that the engine scored one below
\* SCORE_HIGH, MEDIUM, is queued with the bonus as HIGH, and an article of
\* the same source below SCORE_MEDIUM was skipped without bonus.
C36_Witness ==
    /\ SCORE_MEDIUM = 3
    /\ \A s \in {RSS_SOURCES[1]} : source_reliability["A"][s] > 10
    /\ stats["A"].skip_topic >= 1
    /\ \E i \in 1..Len(publish_queue["A"]) :
          /\ publish_queue["A"][i].score = SCORE_HIGH
          /\ publish_queue["A"][i].tier = "HIGH"
          /\ _score_article(publish_queue["A"][i].title,
                            publish_queue["A"][i].desc).tier = "MEDIUM"

\* The entry carries a publish timestamp.
Dated(entry) == entry.pub_date # NoDate

\* The candidate list is newest first, the entries without a timestamp
\* after all dated entries.
UndatedLast ==
    \A i, j \in 1..Len(all_entries["A"]) :
        i < j =>
            /\ Dated(all_entries["A"][j]) => Dated(all_entries["A"][i])
            /\ (Dated(all_entries["A"][i]) /\ Dated(all_entries["A"][j]))
                  => all_entries["A"][i].pub_date >= all_entries["A"][j].pub_date

\* The same entry with a timestamp of the hour of the run.
DatedNow(entry) == [entry EXCEPT !.pub_date = NowHour]

\* The loop of phase 3 processes its current entry.
ProcessesCandidate ==
    /\ pc["A"] = "phase3"
    /\ idx["A"] <= Len(all_entries["A"])
    /\ idx'["A"] = idx["A"] + 1

\* C37: an entry without a publish timestamp is never skipped by the
\* time-window filter: it is ordered after all dated entries in the
\* newest-first candidate list and is scored and deduplicated like an entry
\* inside the window; only an entry with a timestamp older than
\* HOURS_THRESHOLD is counted in skip_time.
C37_UndatedNeverSkippedByTime ==
    /\ [](pc["A"] = "phase3" => UndatedLast)
    /\ [][ ProcessesCandidate =>
             /\ stats'["A"].skip_time # stats["A"].skip_time
                   <=> /\ Dated(Candidate)
                       /\ Candidate.pub_date < NowHour - HOURS_THRESHOLD
             /\ ~Dated(Candidate) =>
                   /\ stats'["A"] = Booked(stats["A"], Verdict("A", DatedNow(Candidate)),
                                           Boosted("A", DatedNow(Candidate)).tier)
                   /\ Len(publish_queue'["A"]) > Len(publish_queue["A"])
                         <=> Verdict("A", DatedNow(Candidate)) = "queue"
                   /\ fuzzy_records'["A"] # fuzzy_records["A"]
                         <=> Verdict("A", DatedNow(Candidate)) = "queue" ]_vars

\* Phase 3 is over: the entry without a timestamp came last in the list and
\* was queued, and an entry older than the window was skipped.
C37_Witness ==
    /\ pc["A"] = "phase4"
    /\ Len(all_entries["A"]) = 3
    /\ Dated(all_entries["A"][1]) /\ Dated(all_entries["A"][2])
    /\ ~Dated(all_entries["A"][3])
    /\ stats["A"].skip_time = 1
    /\ \E i \in 1..Len(publish_queue["A"]) : ~Dated(publish_queue["A"][i])
====
